---- MODULE Spec2Model ----
(***************************************************************************)
(* A model of the request pacing, retry and input-validation logic of the  *)
(* d13-business-prospector maps core:                                      *)
(*   - ExponentialBackoffRateLimiter (src/src/core/maps/rate-limiter.ts)   *)
(*   - GooglePlacesClient (src/src/core/maps/google-places-client.ts)      *)
(*   - GoogleMapsScraper (src/src/core/maps/google-maps-scraper.ts)        *)
(*   - MapsClient (src/unnamed/part_001)                                   *)
(*                                                                         *)
(* JavaScript runs one callback at a time, so every action below is one    *)
(* run-to-suspension slice of a handler: from its call (or from the timer  *)
(* or promise that resumes it) to its next await or its return.            *)
(* Timers are ideal: a timer set for ms milliseconds fires when exactly ms *)
(* milliseconds have passed (time does not advance past a due timer).      *)
(***************************************************************************)
EXTENDS Integers, Sequences, FiniteSets, TLC

\* ------------------------------------------------------------------------
\* Bounds of the model
\* ------------------------------------------------------------------------

\* Number of waitForNextRequest calls made on the limiter in one behaviour.
MaxCallers == 4

\* New calls arrive during the first MaxIntervals pacing intervals.
MaxIntervals == 4

\* Number of calls (searches, details fetches, cleanups) made on one
\* GoogleMapsScraper in one behaviour.
MaxScrapes == 3

\* Length of the longest list of raw records a source delivers (besides
\* one list longer than the default maxResults).
MaxRecords == 2

\* ------------------------------------------------------------------------
\* Program constants
\* ------------------------------------------------------------------------

DefaultRequestsPerSecond == 10
DefaultMaxRetries == 3
DefaultBaseDelay == 1000
DefaultMaxDelay == 30000
DefaultBackoffMultiplier == 2
MsPerSecond == 1000

\* ------------------------------------------------------------------------
\* State
\* ------------------------------------------------------------------------

VARIABLES
  \* --- ExponentialBackoffRateLimiter ---
  config,               \* the RateLimiterConfig passed to the constructor
                        \*   (a field that is 0 stands for a falsy value)
  \* pacing queue
  requestQueue,         \* this.requestQueue: entries [caller, timestamp]
  processing,           \* this.processing
  drains,               \* one wake-up deadline per processQueue loop suspended in delay()
  now,                  \* Date.now(), in ms
  calls,                \* history: per waitForNextRequest call, its timestamp and
                        \*   whether it started a processQueue loop
  released,             \* history: callers whose promise was resolved, in order
  releasedAt,           \* history: the time of each of those resolutions
  \* one retryWithBackoff(operation) call chain
  retryPc,              \* "idle" | "operation" (awaiting operation()) | "delay"
                        \*   (awaiting delay()) | "resolved" | "rejected"
  retryCount,           \* the retryCount parameter of the current recursion level
  invocations,          \* number of times operation() has been invoked
  attempts,             \* history: the outcome of each settled invocation
  waits,                \* history: the ms of each delay() awaited
  retryResult,          \* what the promise returned to the caller settled with
  \* isRetryableError applied to one error
  probe,                \* the error under classification
  verdict,              \* "none" before the call, then its outcome
  \* one searchBusinesses(query, location) call on one of the three clients
  call,                 \* the call: its target, its arguments, the client's setup
  searchPc,             \* "idle", the await the call is suspended at, or
                        \*   "resolved" | "rejected"
  searchOutcome,        \* what the call's promise settled with
  pending,              \* what the awaited call settled with, until the
                        \*   method resumes with it; in the scraper also the
                        \*   outcome of the try block, held while the finally
                        \*   block closes the page
  effects,              \* history: the outbound calls made and what the
                        \*   MapsClient saw them settle with, in order
  browser,              \* GoogleMapsScraper.browser: "null" or "open"
  pages,                \* number of open pages of the browser
  ticket,               \* the caller number of the call in the pacing queue
  \* one MapsClient call, which calls the source clients
  mapsCall,             \* the call: its arguments, the MapsClient's setup
  mapsPc,               \* "idle", the await the call is suspended at, or
                        \*   "resolved" | "rejected"
  mapsOutcome,          \* what the call's promise settled with
  operation,            \* the source client that the operation given to
                        \*   retryWithBackoff calls, "none" outside MapsClient
  delayUntil,           \* the time the timer of the backoff delay is due
  \* the records of one MapsClient.searchBusinesses call (mapsCall)
  dataPc,               \* "idle", the await the call is suspended at, "resolved"
  rawResults,           \* what the source delivered: response.data.results, or
                        \*   the array page.evaluate returned
  sourceResults,        \* what the source client's searchBusinesses returned
  unifiedResults,       \* what MapsClient.searchBusinesses returned
  elements,             \* the textContent of the Rating and Reviews elements
                        \*   of a result on the page (<<>>: no page)
  \* the browser session of one GoogleMapsScraper under concurrent calls
  thisBrowser,          \* this.browser: 0 for null, or the number of a browser
  launches,             \* history: the number of browsers chromium.launch created
  closed,               \* history: the browsers that were closed
  closeCalls,           \* history: the calls of browser.close(), in order
  scrapes,              \* per call: its position, the browser launchBrowser
                        \*   returned to it, the browser its page was opened in
  \* the DefaultRateLimiter of a GooglePlacesClient built without a limiter
  lastRequestTime,      \* this.lastRequestTime
  sleepers              \* the callers awaiting their setTimeout, each with
                        \*   the time at which it fires

qvars == <<requestQueue, processing, drains, now, calls, released, releasedAt>>

rvars == <<retryPc, retryCount, invocations, attempts, waits, retryResult>>

cvars == <<probe, verdict>>

svars == <<call, searchPc, searchOutcome, pending, effects, browser, pages,
           ticket>>

mvars == <<mapsCall, mapsPc, mapsOutcome, operation, delayUntil>>

dvars == <<dataPc, rawResults, sourceResults, unifiedResults, elements>>

bvars == <<thisBrowser, launches, closed, closeCalls, scrapes>>

lvars == <<lastRequestTime, sleepers>>

vars == <<config, qvars, rvars, cvars, svars, mvars, dvars, bvars, lvars>>

\* ------------------------------------------------------------------------
\* Helpers
\* ------------------------------------------------------------------------

\* JavaScript's a || b on numbers: 0 (like undefined and NaN) is falsy.
OrDefault(a, b) == IF a = 0 THEN b ELSE a

Min(a, b) == IF a <= b THEN a ELSE b

SeqMin(s) == CHOOSE x \in { s[i] : i \in 1..Len(s) } :
               \A j \in 1..Len(s) : x <= s[j]

RemoveAt(s, i) == SubSeq(s, 1, i - 1) \o SubSeq(s, i + 1, Len(s))

\* ------------------------------------------------------------------------
\* ExponentialBackoffRateLimiter: constructor, waitForNextRequest, processQueue
\* ------------------------------------------------------------------------

\* Values of config.requestsPerSecond the limiter is constructed with
\* (0 stands for a value the constructor replaces by its default).
RequestsPerSecondConfigs == {0, 2, 5, 10}

\* this.requestsPerSecond = config.requestsPerSecond || 10, and so on
requestsPerSecond == OrDefault(config.requestsPerSecond, DefaultRequestsPerSecond)

maxRetries == OrDefault(config.maxRetries, DefaultMaxRetries)

baseDelay == OrDefault(config.baseDelay, DefaultBaseDelay)

maxDelay == OrDefault(config.maxDelay, DefaultMaxDelay)

backoffMultiplier == OrDefault(config.backoffMultiplier, DefaultBackoffMultiplier)

\* new ExponentialBackoffRateLimiter() with no queue entry and no drain loop
IdleQueue ==
  /\ requestQueue = <<>>
  /\ processing = FALSE
  /\ drains = <<>>
  /\ now = 0
  /\ calls = <<>>
  /\ released = <<>>
  /\ releasedAt = <<>>

\* no retryWithBackoff call has been made
IdleRetry ==
  /\ retryPc = "idle"
  /\ retryCount = 0
  /\ invocations = 0
  /\ attempts = <<>>
  /\ waits = <<>>
  /\ retryResult = [kind |-> "none"]

\* no error is under classification
IdleClassify ==
  /\ probe = [undef |-> TRUE]
  /\ verdict = "none"

\* no search call has been made, no browser session exists
IdleSearch ==
  /\ call = [target |-> "none"]
  /\ searchPc = "idle"
  /\ searchOutcome = [kind |-> "none"]
  /\ pending = [kind |-> "none"]
  /\ effects = <<>>
  /\ browser = "null"
  /\ pages = 0
  /\ ticket = 0

\* no MapsClient call has been made
IdleMaps ==
  /\ mapsCall = [op |-> "none"]
  /\ mapsPc = "idle"
  /\ mapsOutcome = [kind |-> "none"]
  /\ operation = "none"
  /\ delayUntil = 0

\* no records are under way
IdleData ==
  /\ dataPc = "idle"
  /\ rawResults = <<>>
  /\ sourceResults = <<>>
  /\ unifiedResults = <<>>
  /\ elements = <<>>

\* no DefaultRateLimiter is in use
IdleDefaultLimiter ==
  /\ lastRequestTime = 0
  /\ sleepers = <<>>

\* no scraper is shared by concurrent calls
IdleSessions ==
  /\ thisBrowser = 0
  /\ launches = 0
  /\ closed = {}
  /\ closeCalls = <<>>
  /\ scrapes = <<>>

Interval_PerMinute == (60 * MsPerSecond) \div requestsPerSecond

\* const interval = 1000 / this.requestsPerSecond
Interval == MsPerSecond \div requestsPerSecond

\* Granularity of the arrival times explored: half a pacing interval.
TickMs == Interval \div 2

InitQueue ==
  /\ IdleDefaultLimiter
  /\ config \in [requestsPerSecond : RequestsPerSecondConfigs,
                  maxRetries : {0}, baseDelay : {0}, maxDelay : {0},
                  backoffMultiplier : {0}]
  /\ IdleQueue
  /\ IdleData
  /\ IdleSessions
  /\ IdleRetry
  /\ IdleClassify
  /\ IdleSearch
  /\ IdleMaps

\* if (!this.processing) in waitForNextRequest
ShouldStartProcessing_Always == TRUE

ShouldStartProcessing == ~processing

\* const request = this.requestQueue.shift()
ShiftIndex_Pop(q) == Len(q)

ShiftIndex(q) == 1

\* processQueue without its last statement, this.processing = false.
ProcessQueueFrom_NeverIdle(q, d) ==
  IF Len(q) > 0
    THEN /\ requestQueue' = RemoveAt(q, 1)
         /\ released' = Append(released, q[1].caller)
         /\ releasedAt' = Append(releasedAt, now)
         /\ drains' = IF d = 0 THEN Append(drains, now + (MsPerSecond \div requestsPerSecond))
                               ELSE [drains EXCEPT ![d] = now + (MsPerSecond \div requestsPerSecond)]
         /\ processing' = TRUE
    ELSE /\ requestQueue' = q
         /\ processing' = TRUE
         /\ drains' = IF d = 0 THEN drains ELSE RemoveAt(drains, d)
         /\ UNCHANGED <<released, releasedAt>>

\* processQueue clearing this.processing as soon as the release that
\* empties the queue is made, with no wait after it.
ProcessQueueFrom_StopsWhenEmpty(q, d) ==
  IF Len(q) > 0
    THEN /\ requestQueue' = RemoveAt(q, 1)
         /\ released' = Append(released, q[1].caller)
         /\ releasedAt' = Append(releasedAt, now)
         /\ IF Len(q) > 1
              THEN /\ drains' = IF d = 0 THEN Append(drains, now + (MsPerSecond \div requestsPerSecond))
                                         ELSE [drains EXCEPT ![d] = now + (MsPerSecond \div requestsPerSecond)]
                   /\ processing' = TRUE
              ELSE /\ drains' = IF d = 0 THEN drains ELSE RemoveAt(drains, d)
                   /\ processing' = FALSE
    ELSE /\ requestQueue' = q
         /\ processing' = FALSE
         /\ drains' = IF d = 0 THEN drains ELSE RemoveAt(drains, d)
         /\ UNCHANGED <<released, releasedAt>>

\* One pass of processQueue's while loop over queue q, up to the await (or
\* to the end of the function), by the loop whose deadline is slot d of
\* drains (d = 0: a loop that starts now).
ProcessQueueFrom(q, d) ==
  IF Len(q) > 0
    THEN LET i == ShiftIndex(q) IN
         /\ requestQueue' = RemoveAt(q, i)
         /\ released' = Append(released, q[i].caller)
         /\ releasedAt' = Append(releasedAt, now)
         /\ drains' = IF d = 0 THEN Append(drains, now + Interval)
                               ELSE [drains EXCEPT ![d] = now + Interval]
         /\ processing' = TRUE
    ELSE /\ requestQueue' = q
         /\ processing' = FALSE
         /\ drains' = IF d = 0 THEN drains ELSE RemoveAt(drains, d)
         /\ UNCHANGED <<released, releasedAt>>

\* The body of waitForNextRequest(): push the caller; start processQueue
\* unless one is processing. processQueue runs synchronously up to its
\* first await.
Enqueue ==
  /\ LET caller == Len(calls) + 1
         q == Append(requestQueue, [caller |-> caller, timestamp |-> now])
     IN IF ShouldStartProcessing
          THEN /\ calls' = Append(calls, [timestamp |-> now, started |-> TRUE])
               /\ ProcessQueueFrom(q, 0)
          ELSE /\ calls' = Append(calls, [timestamp |-> now, started |-> FALSE])
               /\ requestQueue' = q
               /\ UNCHANGED <<processing, drains, released, releasedAt>>
  /\ UNCHANGED now

\* A caller calls waitForNextRequest().
WaitForNextRequest ==
  /\ Len(calls) < MaxCallers
  /\ now <= MaxIntervals * Interval
  /\ Enqueue
  /\ UNCHANGED <<config, lvars, rvars, cvars, svars, mvars, dvars, bvars>>

\* The delay(interval) of a processQueue loop elapses: the loop resumes at
\* the while condition.
ProcessQueueResume ==
  /\ \E d \in 1..Len(drains) :
       /\ drains[d] = now
       /\ ProcessQueueFrom(requestQueue, d)
  /\ UNCHANGED <<config, lvars, now, calls, rvars, cvars, svars, mvars, dvars, bvars>>

\* Time passes, up to the next due timer.
Tick ==
  /\ \/ Len(drains) > 0
     \/ now < MaxIntervals * Interval
  /\ LET step == IF Len(drains) > 0
                   THEN Min(TickMs, SeqMin(drains) - now)
                   ELSE TickMs
     IN /\ step > 0
        /\ now' = now + step
  /\ UNCHANGED <<config, lvars, requestQueue, processing, drains, calls, released,
                 releasedAt, rvars, cvars, svars, mvars, dvars, bvars>>

NextQueue == WaitForNextRequest \/ ProcessQueueResume \/ Tick

SpecQueue == InitQueue /\ [][NextQueue]_vars

\* The event loop runs every due timer callback, and time passes.
SpecQueueFair ==
  /\ InitQueue
  /\ [][NextQueue]_vars
  /\ WF_vars(ProcessQueueResume)
  /\ WF_vars(Tick)

\* ------------------------------------------------------------------------
\* JavaScript values, as far as isRetryableError inspects them
\* ------------------------------------------------------------------------

Undefined == [undef |-> TRUE]

Num(n) == [num |-> n]

Str(s) == [str |-> s]

IsString(v) == "str" \in DOMAIN v

\* String.prototype.includes: pat occurs in s as a contiguous substring.
Includes(s, pat) ==
  \E i \in 1..(Len(s) - Len(pat) + 1) : SubSeq(s, i, i + Len(pat) - 1) = pat

\* An error value: error?.response?.status, error?.code, error?.message.
Error(status, code, message) ==
  [status |-> status, code |-> code, message |-> message]

\* ------------------------------------------------------------------------
\* ExponentialBackoffRateLimiter.isRetryableError
\* ------------------------------------------------------------------------

\* isRetryableError that compares the message without regard to case.
IsRetryableError_IgnoreCase(error) ==
  IF error = Undefined THEN "false"
  ELSE IF error.status \in {Num(429), Num(503), Num(504)} THEN "true"
  ELSE IF error.code \in {Str("ECONNRESET"), Str("ETIMEDOUT")} THEN "true"
  ELSE IF error.message = Undefined THEN "false"
  ELSE IF ~IsString(error.message) THEN "TypeError"
  ELSE IF \E pat \in {"timeout", "Timeout", "network", "Network"} :
            Includes(error.message.str, pat) THEN "true"
  ELSE "false"

\* isRetryableError that takes any error with a message for retryable.
IsRetryableError_AnyMessage(error) ==
  IF error = Undefined THEN "false"
  ELSE IF error.status \in {Num(429), Num(503), Num(504)} THEN "true"
  ELSE IF error.code \in {Str("ECONNRESET"), Str("ETIMEDOUT")} THEN "true"
  ELSE IF error.message = Undefined THEN "false"
  ELSE "true"

\* isRetryableError with the test of every failure replaced by true.
IsRetryableError_Always(error) == "true"

\* isRetryableError(error): "true" or "false" for the boolean it returns,
\* "TypeError" when it throws: error?.message?.includes(...) calls includes
\* on any message that is neither null nor undefined, and a message that is
\* not a string (nor an array) has no such method.
IsRetryableError(error) ==
  IF error = Undefined THEN "false"
  ELSE IF error.status = Num(429) THEN "true"
  ELSE IF error.status = Num(503) THEN "true"
  ELSE IF error.status = Num(504) THEN "true"
  ELSE IF error.code = Str("ECONNRESET") THEN "true"
  ELSE IF error.code = Str("ETIMEDOUT") THEN "true"
  ELSE IF error.message = Undefined THEN "false"
  ELSE IF ~IsString(error.message) THEN "TypeError"
  ELSE IF Includes(error.message.str, "timeout") THEN "true"
  ELSE IF Includes(error.message.str, "network") THEN "true"
  ELSE "false"

\* The errors isRetryableError is applied to. A message is absent or a
\* string, as on every Error, AxiosError and plain object that the
\* operations and the tests of this repository reject with.
ErrorStatuses ==
  {Undefined, Num(400), Num(401), Num(404), Num(429), Num(500), Num(503),
   Num(504), Str("429")}

ErrorCodes ==
  {Undefined, Str("ECONNRESET"), Str("ETIMEDOUT"), Str("ECONNREFUSED"),
   Str("econnreset")}

ErrorMessages ==
  {Undefined, Str(""), Str("timeout"), Str("Timeout"), Str("network"),
   Str("Network Error"), Str("timeout of 5000ms exceeded"),
   Str("socket network down"), Str("Request failed with status code 400"),
   Str("Rate limit exceeded. Please try again later.")}

ErrorShapes ==
  {Undefined} \cup
  { Error(st, cd, msg) : st \in ErrorStatuses, cd \in ErrorCodes,
                         msg \in ErrorMessages }

InitClassify ==
  /\ IdleDefaultLimiter
  /\ config = [requestsPerSecond |-> 0, maxRetries |-> 0, baseDelay |-> 0,
               maxDelay |-> 0, backoffMultiplier |-> 0]
  /\ IdleQueue
  /\ IdleData
  /\ IdleSessions
  /\ IdleRetry
  /\ IdleSearch
  /\ IdleMaps
  /\ probe \in ErrorShapes
  /\ verdict = "none"

\* this.isRetryableError(error)
IsRetryableErrorCall ==
  /\ verdict = "none"
  /\ verdict' = IsRetryableError(probe)
  /\ UNCHANGED <<config, lvars, qvars, rvars, svars, mvars, dvars, bvars, probe>>

NextClassify == IsRetryableErrorCall

SpecClassify == InitClassify /\ [][NextClassify]_vars

\* ------------------------------------------------------------------------
\* ExponentialBackoffRateLimiter.retryWithBackoff
\* ------------------------------------------------------------------------

RECURSIVE Pow(_, _)
\* Math.pow(b, n) for a natural exponent
Pow(b, n) == IF n = 0 THEN 1 ELSE b * Pow(b, n - 1)

\* The rate-limiter configurations retryWithBackoff is run under: maxRetries
\* from 0 (falsy) up, with three delay settings (the second is all defaults).
RetryConfigs ==
  { [requestsPerSecond |-> 0, maxRetries |-> mr, baseDelay |-> d[1],
     maxDelay |-> d[2], backoffMultiplier |-> d[3]] :
      mr \in {0, 1, 2, 5},
      d \in {<<1000, 3000, 2>>, <<0, 0, 0>>, <<2000, 60000, 3>>} }

\* The failures the operation may reject with: three that isRetryableError
\* accepts (by status, by code, by message), an HTTP 400, and the
\* validation and policy-denial errors of the source clients.
RetryErrorShapes ==
  { Error(Num(429), Undefined, Undefined),
    Error(Undefined, Str("ECONNRESET"), Undefined),
    Error(Undefined, Undefined, Str("network timeout")),
    Error(Num(400), Undefined, Undefined),
    Error(Undefined, Undefined, Str("Query is required")),
    Error(Undefined, Undefined, Str("Location is required")),
    Error(Undefined, Undefined, Str("Place ID is required")),
    Error(Undefined, Undefined, Str("Business URL is required")),
    Error(Undefined, Undefined, Str("Scraping not allowed by robots.txt")) }

\* The TypeError the runtime raises inside isRetryableError; it is the
\* error of no invocation of the operation (id 0).
ControllerTypeError ==
  [id |-> 0,
   shape |-> Error(Undefined, Undefined,
                   Str("error?.message?.includes is not a function"))]

InitRetry ==
  /\ IdleDefaultLimiter
  /\ config \in RetryConfigs
  /\ IdleQueue
  /\ IdleData
  /\ IdleSessions
  /\ IdleRetry
  /\ IdleClassify
  /\ IdleSearch
  /\ IdleMaps

\* The delay without the Math.min(..., this.maxDelay) cap.
BackoffDelay_Uncapped(count) == baseDelay * Pow(backoffMultiplier, count)

\* Math.min(this.baseDelay * Math.pow(this.backoffMultiplier, retryCount),
\*          this.maxDelay)
BackoffDelay(count) ==
  Min(baseDelay * Pow(backoffMultiplier, count), maxDelay)

\* A throw that wraps the error in a new one.
Throw_Wrapped(error) ==
  /\ retryPc' = "rejected"
  /\ retryResult' =
       [kind |-> "error",
        error |-> [id |-> 0,
                   shape |-> Error(Undefined, Undefined, Str("Retries exhausted"))]]
  /\ UNCHANGED <<retryCount, invocations, waits>>

\* throw error: the promise returned to the caller rejects with error.
Throw(error) ==
  /\ retryPc' = "rejected"
  /\ retryResult' = [kind |-> "error", error |-> error]
  /\ UNCHANGED <<retryCount, invocations, waits>>

\* The catch block calling retryWithBackoff again without awaiting
\* this.delay(delay).
Catch_NoWait(error) ==
  IF retryCount >= maxRetries
    THEN Throw(error)
    ELSE LET retryable == IsRetryableError(error.shape) IN
         IF retryable = "TypeError" THEN Throw(ControllerTypeError)
         ELSE IF retryable = "true"
           THEN /\ retryPc' = "delay"
                /\ UNCHANGED <<retryCount, invocations, retryResult, waits>>
           ELSE Throw(error)

\* The catch block of retryWithBackoff, up to its await or its throw.
Catch(error) ==
  IF retryCount >= maxRetries
    THEN Throw(error)
    ELSE LET retryable == IsRetryableError(error.shape) IN
         IF retryable = "TypeError" THEN Throw(ControllerTypeError)
         ELSE IF retryable = "true"
           THEN /\ waits' = Append(waits, BackoffDelay(retryCount))
                /\ retryPc' = "delay"
                /\ UNCHANGED <<retryCount, invocations, retryResult>>
           ELSE Throw(error)

\* retryWithBackoff(operation): operation() is invoked and awaited.
RetryWithBackoff ==
  /\ retryPc = "idle"
  /\ retryPc' = "operation"
  /\ retryCount' = 0
  /\ invocations' = 1
  /\ UNCHANGED <<config, lvars, qvars, cvars, svars, mvars, dvars, bvars, attempts, waits, retryResult>>

\* The awaited operation() fulfils: its value is returned.
OperationFulfils ==
  /\ retryPc = "operation"
  /\ attempts' = Append(attempts, [ok |-> TRUE, id |-> invocations])
  /\ retryPc' = "resolved"
  /\ retryResult' = [kind |-> "value", id |-> invocations]
  /\ UNCHANGED <<config, lvars, qvars, cvars, svars, mvars, dvars, bvars, retryCount, invocations, waits>>

\* The awaited operation() rejects: the catch block runs.
OperationRejects ==
  /\ retryPc = "operation"
  /\ \E shape \in RetryErrorShapes :
       LET error == [id |-> invocations, shape |-> shape] IN
         /\ attempts' = Append(attempts, [ok |-> FALSE, id |-> invocations,
                                          error |-> error])
         /\ Catch(error)
  /\ UNCHANGED <<config, lvars, qvars, cvars, svars, mvars, dvars, bvars>>

\* The backoff delay elapses:
\* return this.retryWithBackoff(operation, retryCount + 1).
DelayElapses ==
  /\ retryPc = "delay"
  /\ retryCount' = retryCount + 1
  /\ invocations' = invocations + 1
  /\ retryPc' = "operation"
  /\ UNCHANGED <<config, lvars, qvars, cvars, svars, mvars, dvars, bvars, attempts, waits, retryResult>>

NextRetry ==
  RetryWithBackoff \/ OperationFulfils \/ OperationRejects \/ DelayElapses

SpecRetry == InitRetry /\ [][NextRetry]_vars

\* ------------------------------------------------------------------------
\* searchBusinesses of MapsClient, GooglePlacesClient and GoogleMapsScraper
\* ------------------------------------------------------------------------

\* Largest number of records a source returns in the model.
MaxSourceResults == 2

\* const { maxResults = 20, ... } = options
DefaultMaxResults == 20

IsWhitespace(ch) == ch \in {" ", "\t", "\n"}

RECURSIVE TrimStart(_)
TrimStart(s) ==
  IF Len(s) > 0 /\ IsWhitespace(SubSeq(s, 1, 1))
    THEN TrimStart(SubSeq(s, 2, Len(s)))
    ELSE s

RECURSIVE TrimEnd(_)
TrimEnd(s) ==
  IF Len(s) > 0 /\ IsWhitespace(SubSeq(s, Len(s), Len(s)))
    THEN TrimEnd(SubSeq(s, 1, Len(s) - 1))
    ELSE s

\* String.prototype.trim
Trim(s) == TrimEnd(TrimStart(s))

\* The test without trim(): only the empty string is refused.
IsMissing_NoTrim(s) == s = ""

\* !query || query.trim() === ''   (the same test guards location, and
\* stands at the head of all three searchBusinesses)
IsMissing(s) == s = "" \/ Trim(s) = ""

Queries == {"", " \t", "pizza", " pizza "}

Locations == {"", " \n", "Tampa, FL"}

\* The rate-limiting configurations a MapsClient is built with: all
\* defaults (3 retries after 1000, 2000, 4000 ms, 10 requests per second),
\* and one retry after a delay shorter than the pacing interval.
SearchConfigs ==
  { [requestsPerSecond |-> 0, maxRetries |-> 0, baseDelay |-> 0,
     maxDelay |-> 0, backoffMultiplier |-> 0],
    [requestsPerSecond |-> 0, maxRetries |-> 1, baseDelay |-> 50,
     maxDelay |-> 0, backoffMultiplier |-> 0] }

\* A call of MapsClient.searchBusinesses: the client has a places client
\* and a scraper or not; options.preferApi and options.maxResults are
\* given or not.
MapsCalls ==
  [op : {"searchBusinesses"}, query : Queries, location : Locations,
   hasPlacesClient : BOOLEAN, hasScraper : BOOLEAN,
   preferApi : {Undefined, [bool |-> TRUE], [bool |-> FALSE]},
   useApiFirst : BOOLEAN,
   maxResults : {Undefined, Num(1)},
   respectRobots : {TRUE}]

\* A call of GooglePlacesClient.searchBusinesses on a client that was given
\* the ExponentialBackoffRateLimiter.
PlacesCalls ==
  [target : {"GooglePlacesClient"}, op : {"searchBusinesses"},
   query : Queries, location : Locations,
   respectRobots : {TRUE}, browser : {"null"}]

\* A call of GoogleMapsScraper.searchBusinesses, on a scraper with or
\* without a browser session left open by an earlier call.
ScraperCalls ==
  [target : {"GoogleMapsScraper"}, op : {"searchBusinesses"},
   query : Queries, location : Locations,
   respectRobots : BOOLEAN, browser : {"null", "open"}]

\* Either one of the source clients is called directly, or a MapsClient is
\* (and no source client has been called yet).
InitSearch ==
  /\ IdleDefaultLimiter
  /\ IdleQueue
  /\ IdleData
  /\ IdleSessions
  /\ IdleRetry
  /\ IdleClassify
  /\ \/ /\ config \in SearchConfigs
        /\ mapsCall \in MapsCalls
        /\ call = [target |-> "none"]
        /\ browser = "null"
     \/ /\ config = [requestsPerSecond |-> 0, maxRetries |-> 0,
                     baseDelay |-> 0, maxDelay |-> 0, backoffMultiplier |-> 0]
        /\ mapsCall = [op |-> "none"]
        /\ call \in PlacesCalls \cup ScraperCalls
        /\ browser = call.browser
  /\ mapsPc = "idle"
  /\ mapsOutcome = [kind |-> "none"]
  /\ operation = "none"
  /\ delayUntil = 0
  /\ searchPc = "idle"
  /\ searchOutcome = [kind |-> "none"]
  /\ pending = [kind |-> "none"]
  /\ effects = <<>>
  /\ pages = 0
  /\ ticket = 0

\* The option ignored: the configuration default alone decides.
PreferApi_ConfigOnly == mapsCall.useApiFirst

\* preferApi = this.config.useApiFirst unless options.preferApi is given
PreferApi ==
  IF mapsCall.preferApi = Undefined THEN mapsCall.useApiFirst
                                    ELSE mapsCall.preferApi.bool

MaxResults ==
  IF mapsCall.maxResults = Undefined THEN DefaultMaxResults
                                     ELSE mapsCall.maxResults.num

\* results.slice(0, maxResults), on the number of records
Slice(n, max) == Min(n, max)

\* new Error(message): an error with no response and no code
Failure(message) ==
  [kind |-> "error", message |-> message, status |-> Undefined,
   code |-> Undefined]

\* An AxiosError: error.response?.status, error.code, error.message
AxiosError(status, code, message) ==
  [kind |-> "error", message |-> message, status |-> status, code |-> code]

Results(n, source) == [kind |-> "results", count |-> n, source |-> source]

\* One details record, from the source client or with its source tag.
Details(source) == [kind |-> "details", source |-> source]

\* The error value of a rejection, as isRetryableError inspects it.
ShapeOf(outcome) == Error(outcome.status, outcome.code, Str(outcome.message))

\* The rejection that carries the error retryWithBackoff threw.
AsOutcome(error) ==
  [kind |-> "error", message |-> error.shape.message.str,
   status |-> error.shape.status, code |-> error.shape.code]

\* The source client's promise settles.
Settle(outcome) ==
  /\ searchPc' = IF outcome.kind = "error" THEN "rejected" ELSE "resolved"
  /\ searchOutcome' = outcome

\* An outbound call is made and awaited at pc.
Await(effect, pc) ==
  /\ effects' = Append(effects, effect)
  /\ searchPc' = pc
  /\ UNCHANGED searchOutcome

\* ---- MapsClient ----

\* The entry of the history for an invocation of the source client.
InvocationOf(target) == target \o "." \o mapsCall.op

\* The call the MapsClient makes on a source client: the method of the
\* same name, with the arguments of the MapsClient call.
SourceCall(target) ==
  IF mapsCall.op = "searchBusinesses"
    THEN [target |-> target, op |-> "searchBusinesses",
          query |-> mapsCall.query, location |-> mapsCall.location,
          respectRobots |-> mapsCall.respectRobots, browser |-> browser]
  ELSE IF target = "GooglePlacesClient"
    THEN [target |-> target, op |-> "getBusinessDetails",
          placeId |-> mapsCall.businessId,
          respectRobots |-> mapsCall.respectRobots, browser |-> browser]
    ELSE [target |-> target, op |-> "getBusinessDetails",
          businessUrl |-> mapsCall.businessUrl.str,
          respectRobots |-> mapsCall.respectRobots, browser |-> browser]

\* The source client is called (by the operation given to retryWithBackoff,
\* or by getBusinessDetails itself).
Invoke(events, target) ==
  /\ call' = SourceCall(target)
  /\ searchPc' = "idle"
  /\ searchOutcome' = [kind |-> "none"]
  /\ effects' = effects \o events \o <<InvocationOf(target)>>
  /\ UNCHANGED <<pending, browser, pages, ticket>>

\* return this.rateLimiter.retryWithBackoff(() =>
\*   client.searchBusinesses(query, location)), awaited at pc
\* (events: what the caller has just observed)
RetrySource(events, method, target, pc) ==
  /\ mapsPc' = pc
  /\ operation' = target
  /\ retryPc' = "operation"
  /\ retryCount' = 0
  /\ invocations' = 1
  /\ retryResult' = [kind |-> "none"]
  /\ Invoke(events \o <<method>>, target)
  /\ UNCHANGED <<mapsOutcome, delayUntil, attempts, waits>>

SearchWithApi(events, pc) ==
  RetrySource(events, "searchWithApi", "GooglePlacesClient", pc)

SearchWithScraper(events, pc) ==
  RetrySource(events, "searchWithScraper", "GoogleMapsScraper", pc)

\* The MapsClient call returns or throws.
MapsSettle(events, outcome) ==
  /\ mapsPc' = IF outcome.kind = "error" THEN "rejected" ELSE "resolved"
  /\ mapsOutcome' = outcome
  /\ effects' = effects \o events
  /\ UNCHANGED <<rvars, call, searchPc, searchOutcome, pending, browser, pages,
                 ticket, operation, delayUntil>>

\* How the awaited searchWithApi / searchWithScraper settled, for the
\* history (a rejection is what console.warn reports).
Observed(method) ==
  IF retryPc = "resolved" THEN <<method \o " fulfilled">>
                          ELSE <<method \o " rejected">>

\* The scraper's records tagged as the structured source's are.
MapScraperResults_TaggedApi(n) == Results(n, "api")

\* mapScraperResults: every record gets source: 'scraper'
MapScraperResults(n) == Results(n, "scraper")

\* mapApiResults: every record gets source: 'api'
MapApiResults(n) == Results(n, "api")

\* The last resort taken whether or not the structured path was tried.
ShouldTryApiLast_IgnoringPreference == mapsCall.hasPlacesClient

\* if (!preferApi && this.placesClient), in the scraper's catch block
ShouldTryApiLast == ~PreferApi /\ mapsCall.hasPlacesClient

\* MapsClient.searchBusinesses, "Try scraper as fallback or primary method",
\* up to its await; without a scraper, the final throw.
TryScraper(events) ==
  IF mapsCall.hasScraper
    THEN SearchWithScraper(events, "maps.scraper")
    ELSE MapsSettle(events, Failure("No search methods available. Please configure API key or enable scraping."))

\* MapsClient.searchBusinesses(query, location, options), up to its first
\* await or its throw.
MapsSearchBusinesses ==
  /\ mapsCall.op = "searchBusinesses"
  /\ mapsPc = "idle"
  /\ IF IsMissing(mapsCall.query)
       THEN MapsSettle(<<>>, Failure("Query is required"))
     ELSE IF IsMissing(mapsCall.location)
       THEN MapsSettle(<<>>, Failure("Location is required"))
     ELSE IF PreferApi /\ mapsCall.hasPlacesClient
       THEN SearchWithApi(<<>>, "maps.api")
     ELSE TryScraper(<<>>)
  /\ UNCHANGED <<config, lvars, qvars, cvars, mapsCall, dvars, bvars>>

\* The searchWithApi awaited first settles.
MapsApiSettles ==
  /\ mapsPc = "maps.api"
  /\ retryPc \in {"resolved", "rejected"}
  /\ IF retryPc = "resolved" /\ retryResult.value.count > 0
       THEN MapsSettle(Observed("searchWithApi"),
                       MapApiResults(Slice(retryResult.value.count, MaxResults)))
       ELSE TryScraper(Observed("searchWithApi"))
  /\ UNCHANGED <<config, lvars, qvars, cvars, mapsCall, dvars, bvars>>

\* The searchWithScraper awaited settles.
MapsScraperSettles ==
  /\ mapsPc = "maps.scraper"
  /\ retryPc \in {"resolved", "rejected"}
  /\ IF retryPc = "resolved"
       THEN MapsSettle(Observed("searchWithScraper"),
                       MapScraperResults(Slice(retryResult.value.count, MaxResults)))
     ELSE IF ShouldTryApiLast
       THEN SearchWithApi(Observed("searchWithScraper"), "maps.apiLast")
     ELSE MapsSettle(Observed("searchWithScraper"), AsOutcome(retryResult.error))
  /\ UNCHANGED <<config, lvars, qvars, cvars, mapsCall, dvars, bvars>>

\* The searchWithApi awaited in the scraper's catch block settles.
MapsApiLastSettles ==
  /\ mapsPc = "maps.apiLast"
  /\ retryPc \in {"resolved", "rejected"}
  /\ IF retryPc = "resolved"
       THEN MapsSettle(Observed("searchWithApi"),
                       MapApiResults(Slice(retryResult.value.count, MaxResults)))
       ELSE MapsSettle(Observed("searchWithApi"), AsOutcome(retryResult.error))
  /\ UNCHANGED <<config, lvars, qvars, cvars, mapsCall, dvars, bvars>>

\* ---- retryWithBackoff around a source client ----

\* The awaited operation() settles: its value is returned, or the catch
\* block runs and, for a retry, sets the timer of delay(delay).
OperationSettles ==
  /\ operation # "none"
  /\ retryPc = "operation"
  /\ searchPc \in {"resolved", "rejected"}
  /\ IF searchPc = "resolved"
       THEN /\ retryPc' = "resolved"
            /\ retryResult' = [kind |-> "value", id |-> invocations,
                               value |-> searchOutcome]
            /\ UNCHANGED <<retryCount, invocations, waits, delayUntil>>
       ELSE /\ Catch([id |-> invocations, shape |-> ShapeOf(searchOutcome)])
            /\ delayUntil' = IF retryPc' = "delay"
                               THEN now + BackoffDelay(retryCount)
                               ELSE delayUntil
  /\ UNCHANGED <<config, lvars, qvars, cvars, svars, attempts, mapsCall, mapsPc,
                 mapsOutcome, operation, dvars, bvars>>

\* The timer of the backoff delay fires:
\* return this.retryWithBackoff(operation, retryCount + 1).
BackoffElapses ==
  /\ operation # "none"
  /\ retryPc = "delay"
  /\ delayUntil = now
  /\ retryCount' = retryCount + 1
  /\ invocations' = invocations + 1
  /\ retryPc' = "operation"
  /\ Invoke(<<>>, operation)
  /\ UNCHANGED <<config, lvars, qvars, cvars, attempts, waits, retryResult, mvars, dvars, bvars>>

\* The timers that are set: one per drain loop, one for a backoff delay.
Deadlines ==
  { drains[i] : i \in 1..Len(drains) } \cup
  (IF retryPc = "delay" THEN {delayUntil} ELSE {})

\* Time passes until the next timer is due.
TimePasses ==
  /\ Deadlines # {}
  /\ LET next == CHOOSE t \in Deadlines : \A u \in Deadlines : t <= u
     IN /\ next > now
        /\ now' = next
  /\ UNCHANGED <<config, lvars, requestQueue, processing, drains, calls, released,
                 releasedAt, rvars, cvars, svars, mvars, dvars, bvars>>

\* ---- GooglePlacesClient ----

\* GooglePlacesClient.searchBusinesses(query, location), up to
\* await this.rateLimiter.waitForNextRequest() or its throw.
PlacesSearchBusinesses ==
  /\ call.target = "GooglePlacesClient"
  /\ call.op = "searchBusinesses"
  /\ searchPc = "idle"
  /\ IF IsMissing(call.query)
       THEN /\ Settle(Failure("Query is required"))
            /\ UNCHANGED <<effects, ticket, qvars>>
     ELSE IF IsMissing(call.location)
       THEN /\ Settle(Failure("Location is required"))
            /\ UNCHANGED <<effects, ticket, qvars>>
     ELSE /\ Enqueue
          /\ ticket' = Len(calls) + 1
          /\ Await("waitForNextRequest", "places.turn")
  /\ UNCHANGED <<config, lvars, rvars, cvars, mvars, dvars, bvars, call, pending, browser, pages>>

\* The places client sending its request without awaiting its turn.
PlacesRequest_WithoutTurn ==
  /\ searchPc = "places.turn"
  /\ Await(IF call.op = "searchBusinesses" THEN "axios.get textsearch"
                                             ELSE "axios.get details",
           "places.http")
  /\ UNCHANGED <<config, lvars, qvars, rvars, cvars, mvars, dvars, bvars, call, pending, browser,
                 pages, ticket>>

\* The places client is released by the limiter and sends its request.
PlacesRequest ==
  /\ searchPc = "places.turn"
  /\ \E i \in 1..Len(released) : released[i] = ticket
  /\ Await(IF call.op = "searchBusinesses" THEN "axios.get textsearch"
                                             ELSE "axios.get details",
           "places.http")
  /\ UNCHANGED <<config, lvars, qvars, rvars, cvars, mvars, dvars, bvars, call, pending, browser,
                 pages, ticket>>

\* The AxiosErrors axios.get rejects with: the HTTP status of the response
\* if there is one, the code, the message.
AxiosErrors ==
  { [kind |-> "axiosError", httpStatus |-> Num(429),
     code |-> Str("ERR_BAD_REQUEST"),
     message |-> "Request failed with status code 429"],
    [kind |-> "axiosError", httpStatus |-> Num(500),
     code |-> Str("ERR_BAD_RESPONSE"),
     message |-> "Request failed with status code 500"],
    [kind |-> "axiosError", httpStatus |-> Undefined,
     code |-> Str("ECONNRESET"), message |-> "socket hang up"],
    [kind |-> "axiosError", httpStatus |-> Undefined,
     code |-> Str("ETIMEDOUT"), message |-> "connect ETIMEDOUT"] }

\* What axios.get settles with in searchBusinesses: a response body
\* (status, error_message, the number of valid results) or an AxiosError.
\* Only a response with status OK carries results, and only one with an
\* error status carries an error_message.
PlacesResponses ==
  { r \in [kind : {"response"},
           status : {"OK", "ZERO_RESULTS", "REQUEST_DENIED", "OVER_QUERY_LIMIT"},
           error_message : {Undefined, Str("The provided API key is invalid.")},
           count : 0..MaxSourceResults] :
      /\ r.status # "OK" => r.count = 0
      /\ r.status \in {"OK", "ZERO_RESULTS"} => r.error_message = Undefined }
  \cup AxiosErrors

\* `${x}` of a value that is a string or undefined
Template(v) == IF v = Undefined THEN "undefined" ELSE v.str

\* `Google Places API error: ${error_message || status}`
ApiError(r) ==
  Failure("Google Places API error: " \o
          (IF r.error_message = Undefined THEN r.status
                                         ELSE r.error_message.str))

\* The promise of axios.get settles, with a response or an AxiosError; the
\* suspended searchBusinesses is scheduled to resume with it.
PlacesRequestSettles ==
  /\ searchPc = "places.http"
  /\ call.op = "searchBusinesses"
  /\ pending' \in PlacesResponses
  /\ searchPc' = "places.response"
  /\ UNCHANGED <<config, lvars, qvars, rvars, cvars, mvars, dvars, bvars, call, searchOutcome,
                 effects, browser, pages, ticket>>

\* HTTP 429 rethrown like any other transport error.
CatchAxios_Rethrow(r) == AxiosError(r.httpStatus, r.code, r.message)

\* The catch block of both methods: an AxiosError whose response has status
\* 429 is replaced by a new Error, any other error is rethrown.
CatchAxios(r) ==
  IF r.httpStatus = Num(429)
    THEN Failure("Rate limit exceeded. Please try again later.")
    ELSE AxiosError(r.httpStatus, r.code, r.message)

\* searchBusinesses resumes: the status of the response is interpreted, a
\* transport error is translated or rethrown.
PlacesResponse ==
  /\ searchPc = "places.response"
  /\ call.op = "searchBusinesses"
  /\ LET r == pending
     IN IF r.kind = "axiosError"
          THEN Settle(CatchAxios(r))
        ELSE IF r.status = "REQUEST_DENIED"
          THEN Settle(Failure("Google Places API error: " \o Template(r.error_message)))
        ELSE IF r.status = "ZERO_RESULTS"
          THEN Settle(Results(0, "places"))
        ELSE IF r.status # "OK"
          THEN Settle(ApiError(r))
        ELSE Settle(Results(r.count, "places"))
  /\ pending' = [kind |-> "none"]
  /\ UNCHANGED <<config, lvars, qvars, rvars, cvars, mvars, dvars, bvars, call, effects, browser,
                 pages, ticket>>

\* ---- GoogleMapsScraper ----

\* const browser = await this.launchBrowser(); browser.newPage():
\* chromium.launch when there is no browser yet.
LaunchBrowser ==
  IF browser = "null"
    THEN Await("chromium.launch", "scraper.launch")
    ELSE Await("browser.newPage", "scraper.newPage")

\* GoogleMapsScraper.searchBusinesses(query, location), up to its first
\* await or its throw.
ScraperSearchBusinesses ==
  /\ call.target = "GoogleMapsScraper"
  /\ call.op = "searchBusinesses"
  /\ searchPc = "idle"
  /\ IF IsMissing(call.query)
       THEN Settle(Failure("Query is required")) /\ UNCHANGED effects
     ELSE IF IsMissing(call.location)
       THEN Settle(Failure("Location is required")) /\ UNCHANGED effects
     ELSE IF call.respectRobots
       THEN Await("axios.get robots.txt", "scraper.robots")
     ELSE LaunchBrowser
  /\ UNCHANGED <<config, lvars, qvars, rvars, cvars, mvars, dvars, bvars, call, pending, browser,
                 pages, ticket>>

\* The robots.txt documents the fetch may return: empty; rules for every
\* agent, for GoogleBot and for another agent; the paths /maps, /, a path
\* under /maps and another path; a Disallow without a space; a section
\* that ends where another agent's begins.
RobotsDocuments ==
  { "",
    "User-agent: *\nDisallow: /search",
    "User-agent: *\nDisallow: /maps",
    "User-agent: *\nDisallow: /",
    "User-agent: GoogleBot\nDisallow: /",
    "User-agent: BadBot\nDisallow: /",
    "User-agent: BadBot\nDisallow: /maps",
    "User-agent: *\nDisallow: /maps/api/js/",
    "User-agent: *\nDisallow:/maps",
    "User-agent: *\nAllow: /\nUser-agent: BadBot\nDisallow: /" }

\* What axios.get('https://www.google.com/robots.txt', { timeout: 5000 })
\* settles with: a response whose data is the document, or an AxiosError
\* (the time-out, a connection reset).
RobotsResponses ==
  { [kind |-> "response", data |-> d] : d \in RobotsDocuments } \cup
  { [kind |-> "axiosError", httpStatus |-> Undefined,
     code |-> Str("ECONNABORTED"), message |-> "timeout of 5000ms exceeded"],
    [kind |-> "axiosError", httpStatus |-> Undefined,
     code |-> Str("ECONNRESET"), message |-> "socket hang up"] }

\* String.prototype.startsWith
StartsWith(s, prefix) ==
  Len(s) >= Len(prefix) /\ SubSeq(s, 1, Len(prefix)) = prefix

\* String.prototype.split(sep), for a separator of one character
RECURSIVE Split(_, _)
Split(s, sep) ==
  IF \E i \in 1..Len(s) : SubSeq(s, i, i) = sep
    THEN LET i == CHOOSE k \in 1..Len(s) :
                    /\ SubSeq(s, k, k) = sep
                    /\ \A j \in 1..(k - 1) : SubSeq(s, j, j) # sep
         IN <<SubSeq(s, 1, i - 1)>> \o Split(SubSeq(s, i + 1, Len(s)), sep)
    ELSE <<s>>

\* trimmedLine.split(':')[1]?.trim()
SecondField(trimmedLine) ==
  LET parts == Split(trimmedLine, ":")
  IN IF Len(parts) >= 2 THEN Str(Trim(parts[2])) ELSE Undefined

\* The loop over the lines of robots.txt: true unless a section for '*' or
\* 'GoogleBot' has a Disallow of exactly /maps or /.
RECURSIVE ScanLines(_, _)
ScanLines(lines, isOurSection) ==
  IF lines = <<>>
    THEN TRUE
    ELSE LET trimmedLine == Trim(Head(lines))
             section ==
               IF StartsWith(trimmedLine, "User-agent:")
                 THEN SecondField(trimmedLine) \in {Str("*"), Str("GoogleBot")}
                 ELSE isOurSection
         IN IF /\ section
               /\ StartsWith(trimmedLine, "Disallow:")
               /\ SecondField(trimmedLine) \in {Str("/maps"), Str("/")}
              THEN FALSE
              ELSE ScanLines(Tail(lines), section)

\* A fetch that failed taken for a denial.
RespectRobotsTxt_FailClosed(response) ==
  /\ response.kind # "axiosError"
  /\ ~Includes(response.data, "Disallow: /maps")
  /\ ScanLines(Split(response.data, "\n"), FALSE)

\* respectRobotsTxt(), once its fetch has settled: true when the fetch
\* failed; false when the document includes 'Disallow: /maps' anywhere, or
\* the loop over its lines finds a rule against us.
RespectRobotsTxt(response) ==
  IF response.kind = "axiosError"
    THEN TRUE
  ELSE IF Includes(response.data, "Disallow: /maps")
    THEN FALSE
  ELSE ScanLines(Split(response.data, "\n"), FALSE)

\* respectRobotsTxt() settles: its fetch has settled and it returns true
\* or false; the suspended searchBusinesses is scheduled to resume with
\* that (response: what the fetch had settled with).
RobotsSettles ==
  /\ searchPc = "scraper.robots"
  /\ \E response \in RobotsResponses :
       pending' = [kind |-> "allowed", response |-> response,
                   allowed |-> RespectRobotsTxt(response)]
  /\ searchPc' = "scraper.allowed"
  /\ UNCHANGED <<config, lvars, qvars, rvars, cvars, mvars, dvars, bvars, call, searchOutcome,
                 effects, browser, pages, ticket>>

\* The browser launched whatever respectRobotsTxt() returned.
RobotsChecked_IgnoresVerdict ==
  /\ searchPc = "scraper.allowed"
  /\ LaunchBrowser
  /\ pending' = [kind |-> "none"]
  /\ UNCHANGED <<config, lvars, qvars, rvars, cvars, mvars, dvars, bvars, call, browser, pages,
                 ticket>>

\* searchBusinesses resumes with allowed: it throws, or goes on to
\* launchBrowser.
RobotsChecked ==
  /\ searchPc = "scraper.allowed"
  /\ IF pending.allowed
       THEN LaunchBrowser
       ELSE /\ Settle(Failure("Scraping not allowed by robots.txt"))
            /\ UNCHANGED effects
  /\ pending' = [kind |-> "none"]
  /\ UNCHANGED <<config, lvars, qvars, rvars, cvars, mvars, dvars, bvars, call, browser, pages,
                 ticket>>

\* chromium.launch settles: this.browser is set, or the call fails.
LaunchSettles ==
  /\ searchPc = "scraper.launch"
  /\ \E launched \in BOOLEAN :
       IF launched
         THEN /\ browser' = "open"
              /\ Await("browser.newPage", "scraper.newPage")
         ELSE /\ Settle(Failure("browserType.launch failed"))
              /\ UNCHANGED <<effects, browser>>
  /\ UNCHANGED <<config, lvars, qvars, rvars, cvars, mvars, dvars, bvars, call, pending, pages,
                 ticket>>

\* browser.newPage settles: the try block starts with setupPage.
NewPageSettles ==
  /\ searchPc = "scraper.newPage"
  /\ \E opened \in BOOLEAN :
       IF opened
         THEN /\ pages' = pages + 1
              /\ Await("page.setUserAgent", "scraper.setup")
         ELSE /\ Settle(Failure("browser.newPage failed"))
              /\ UNCHANGED <<effects, pages>>
  /\ UNCHANGED <<config, lvars, qvars, rvars, cvars, mvars, dvars, bvars, call, pending, browser,
                 ticket>>

\* The steps of the try block, in order, with the await that follows each
\* and the messages of the errors the step may reject with. page.goto waits
\* until 'networkidle', and the message of its time-out quotes that.
PageSteps ==
  <<[at |-> "scraper.setup", next |-> "page.goto", to |-> "scraper.goto",
     errors |-> {"failed at scraper.setup"}],
    [at |-> "scraper.goto", next |-> "page.waitForSelector",
     to |-> "scraper.selector",
     errors |-> {"failed at scraper.goto",
                 "page.goto: Timeout 30000ms exceeded. waiting until networkidle"}],
    [at |-> "scraper.selector", next |-> "page.evaluate",
     to |-> "scraper.evaluate",
     errors |-> {"failed at scraper.selector"}]>>

\* The finally block: await page.close(), holding the outcome.
ClosePage(outcome) ==
  /\ pending' = outcome
  /\ Await("page.close", "scraper.close")

\* The try block without its finally: a failed step rejects the call and
\* page.close() is not called.
PageStepSettles_NoFinally ==
  /\ \E i \in 1..Len(PageSteps) :
       /\ searchPc = PageSteps[i].at
       /\ \/ /\ Await(PageSteps[i].next, PageSteps[i].to)
             /\ UNCHANGED pending
          \/ \E message \in PageSteps[i].errors :
               /\ Settle(Failure(message))
               /\ UNCHANGED <<effects, pending>>
  /\ UNCHANGED <<config, lvars, qvars, rvars, cvars, mvars, dvars, bvars, call, browser, pages,
                 ticket>>

\* setupPage, page.goto or page.waitForSelector settles: the next step is
\* taken, or the failure leaves the try block.
PageStepSettles ==
  /\ \E i \in 1..Len(PageSteps) :
       /\ searchPc = PageSteps[i].at
       /\ \/ /\ Await(PageSteps[i].next, PageSteps[i].to)
             /\ UNCHANGED pending
          \/ \E message \in PageSteps[i].errors : ClosePage(Failure(message))
  /\ UNCHANGED <<config, lvars, qvars, rvars, cvars, mvars, dvars, bvars, call, browser, pages,
                 ticket>>

\* What the try block ends with once page.evaluate has settled: the mapped
\* records; in getBusinessDetails the mapped details, or 'Business details
\* not found' when the page function returned null.
EvaluateOutcomes ==
  IF call.op = "searchBusinesses"
    THEN { Results(n, "scraped") : n \in 0..MaxSourceResults }
           \cup {Failure("failed at scraper.evaluate")}
    ELSE { Details("scraped"), Failure("Business details not found"),
           Failure("failed at scraper.evaluate") }

\* page.evaluate settles: the records are mapped and returned.
EvaluateSettles ==
  /\ searchPc = "scraper.evaluate"
  /\ \E o \in EvaluateOutcomes : ClosePage(o)
  /\ UNCHANGED <<config, lvars, qvars, rvars, cvars, mvars, dvars, bvars, call, browser, pages,
                 ticket>>

\* page.close() settles: the outcome of the try block is delivered.
PageCloses ==
  /\ searchPc = "scraper.close"
  /\ pages' = pages - 1
  /\ Settle(pending)
  /\ pending' = [kind |-> "none"]
  /\ UNCHANGED <<config, lvars, qvars, rvars, cvars, mvars, dvars, bvars, call, effects, browser,
                 ticket>>

NextSearch ==
  \/ MapsSearchBusinesses \/ MapsApiSettles \/ MapsScraperSettles
  \/ MapsApiLastSettles
  \/ OperationSettles \/ BackoffElapses
  \/ ProcessQueueResume \/ TimePasses
  \/ PlacesSearchBusinesses \/ PlacesRequest \/ PlacesRequestSettles
  \/ PlacesResponse
  \/ ScraperSearchBusinesses \/ RobotsSettles \/ RobotsChecked
  \/ LaunchSettles
  \/ NewPageSettles \/ PageStepSettles \/ EvaluateSettles \/ PageCloses

SpecSearch == InitSearch /\ [][NextSearch]_vars

\* ------------------------------------------------------------------------
\* getBusinessDetails of MapsClient, GooglePlacesClient and GoogleMapsScraper
\* ------------------------------------------------------------------------

PlaceIds == {"", "  ", "ChIJN1t_tDeuEmsRUsoyG83frY4"}

BusinessUrls == {"", " ", "https://www.google.com/maps/place/x"}

\* A call of MapsClient.getBusinessDetails(businessId, businessUrl?).
MapsDetailsCalls ==
  [op : {"getBusinessDetails"}, businessId : PlaceIds,
   businessUrl : {Undefined} \cup { Str(u) : u \in BusinessUrls },
   hasPlacesClient : BOOLEAN, hasScraper : BOOLEAN, respectRobots : {TRUE}]

\* A call of GooglePlacesClient.getBusinessDetails(placeId).
PlacesDetailsCalls ==
  [target : {"GooglePlacesClient"}, op : {"getBusinessDetails"},
   placeId : PlaceIds, respectRobots : {TRUE}, browser : {"null"}]

\* A call of GoogleMapsScraper.getBusinessDetails(businessUrl).
ScraperDetailsCalls ==
  [target : {"GoogleMapsScraper"}, op : {"getBusinessDetails"},
   businessUrl : BusinessUrls, respectRobots : BOOLEAN,
   browser : {"null", "open"}]

InitDetails ==
  /\ IdleDefaultLimiter
  /\ config = [requestsPerSecond |-> 0, maxRetries |-> 0, baseDelay |-> 0,
               maxDelay |-> 0, backoffMultiplier |-> 0]
  /\ IdleQueue
  /\ IdleData
  /\ IdleSessions
  /\ IdleRetry
  /\ IdleClassify
  /\ \/ /\ mapsCall \in MapsDetailsCalls
        /\ call = [target |-> "none"]
        /\ browser = "null"
     \/ /\ mapsCall = [op |-> "none"]
        /\ call \in PlacesDetailsCalls \cup ScraperDetailsCalls
        /\ browser = call.browser
  /\ mapsPc = "idle"
  /\ mapsOutcome = [kind |-> "none"]
  /\ operation = "none"
  /\ delayUntil = 0
  /\ searchPc = "idle"
  /\ searchOutcome = [kind |-> "none"]
  /\ pending = [kind |-> "none"]
  /\ effects = <<>>
  /\ pages = 0
  /\ ticket = 0

\* ---- MapsClient ----

\* await this.placesClient.getBusinessDetails(businessId) or
\* await this.scraper.getBusinessDetails(businessUrl), awaited at pc
CallSource(events, target, pc) ==
  /\ mapsPc' = pc
  /\ Invoke(events, target)
  /\ UNCHANGED <<rvars, mapsOutcome, operation, delayUntil>>

\* How the awaited source call settled, for the history (a rejection is
\* what console.warn reports).
ObservedSource ==
  IF searchPc = "resolved" THEN <<InvocationOf(call.target) \o " fulfilled">>
                           ELSE <<InvocationOf(call.target) \o " rejected">>

\* mapApiDetails / mapScraperDetails: the record gets its source tag
MapApiDetails == Details("api")

MapScraperDetails == Details("scraper")

\* MapsClient.getBusinessDetails, "Try scraper if we have a business URL",
\* up to its await; otherwise the final throw.
TryScraperDetails(events) ==
  IF mapsCall.businessUrl # Undefined /\ mapsCall.businessUrl.str # ""
       /\ mapsCall.hasScraper
    THEN CallSource(events, "GoogleMapsScraper", "details.scraper")
    ELSE MapsSettle(events, Failure("Unable to fetch business details. No valid business ID or URL provided."))

\* MapsClient.getBusinessDetails(businessId, businessUrl), up to its first
\* await or its throw.
MapsGetBusinessDetails ==
  /\ mapsCall.op = "getBusinessDetails"
  /\ mapsPc = "idle"
  /\ IF mapsCall.businessId # "" /\ mapsCall.hasPlacesClient
       THEN CallSource(<<>>, "GooglePlacesClient", "details.api")
       ELSE TryScraperDetails(<<>>)
  /\ UNCHANGED <<config, lvars, qvars, cvars, mapsCall, dvars, bvars>>

\* The scraper tried whether or not the structured lookup succeeded.
MapsDetailsApiSettles_AlwaysFallsBack ==
  /\ mapsPc = "details.api"
  /\ searchPc \in {"resolved", "rejected"}
  /\ TryScraperDetails(ObservedSource)
  /\ UNCHANGED <<config, lvars, qvars, cvars, mapsCall, dvars, bvars>>

\* The placesClient.getBusinessDetails awaited settles.
MapsDetailsApiSettles ==
  /\ mapsPc = "details.api"
  /\ searchPc \in {"resolved", "rejected"}
  /\ IF searchPc = "resolved"
       THEN MapsSettle(ObservedSource, MapApiDetails)
       ELSE TryScraperDetails(ObservedSource)
  /\ UNCHANGED <<config, lvars, qvars, cvars, mapsCall, dvars, bvars>>

\* The scraper.getBusinessDetails awaited settles.
MapsDetailsScraperSettles ==
  /\ mapsPc = "details.scraper"
  /\ searchPc \in {"resolved", "rejected"}
  /\ IF searchPc = "resolved"
       THEN MapsSettle(ObservedSource, MapScraperDetails)
       ELSE MapsSettle(ObservedSource, searchOutcome)
  /\ UNCHANGED <<config, lvars, qvars, cvars, mapsCall, dvars, bvars>>

\* ---- GooglePlacesClient ----

\* GooglePlacesClient.getBusinessDetails(placeId), up to
\* await this.rateLimiter.waitForNextRequest() or its throw.
PlacesGetBusinessDetails ==
  /\ call.target = "GooglePlacesClient"
  /\ call.op = "getBusinessDetails"
  /\ searchPc = "idle"
  /\ IF IsMissing(call.placeId)
       THEN /\ Settle(Failure("Place ID is required"))
            /\ UNCHANGED <<effects, ticket, qvars>>
       ELSE /\ Enqueue
            /\ ticket' = Len(calls) + 1
            /\ Await("waitForNextRequest", "places.turn")
  /\ UNCHANGED <<config, lvars, rvars, cvars, mvars, dvars, bvars, call, pending, browser, pages>>

\* What axios.get settles with in getBusinessDetails.
PlacesDetailsResponses ==
  [kind : {"response"},
   status : {"OK", "NOT_FOUND", "REQUEST_DENIED", "OVER_QUERY_LIMIT"},
   error_message : {Undefined, Str("The provided API key is invalid.")}]
  \cup AxiosErrors

\* The promise of axios.get settles; the suspended getBusinessDetails is
\* scheduled to resume with its response or AxiosError.
PlacesDetailsRequestSettles ==
  /\ searchPc = "places.http"
  /\ call.op = "getBusinessDetails"
  /\ pending' \in PlacesDetailsResponses
  /\ searchPc' = "places.response"
  /\ UNCHANGED <<config, lvars, qvars, rvars, cvars, mvars, dvars, bvars, call, searchOutcome,
                 effects, browser, pages, ticket>>

\* getBusinessDetails resumes: the status of the response is interpreted,
\* a transport error is translated or rethrown.
PlacesDetailsResponse ==
  /\ searchPc = "places.response"
  /\ call.op = "getBusinessDetails"
  /\ LET r == pending
     IN IF r.kind = "axiosError"
          THEN Settle(CatchAxios(r))
        ELSE IF r.status = "NOT_FOUND"
          THEN Settle(Failure("Business not found"))
        ELSE IF r.status = "REQUEST_DENIED"
          THEN Settle(Failure("Google Places API error: " \o Template(r.error_message)))
        ELSE IF r.status # "OK"
          THEN Settle(ApiError(r))
        ELSE Settle(Details("places"))
  /\ pending' = [kind |-> "none"]
  /\ UNCHANGED <<config, lvars, qvars, rvars, cvars, mvars, dvars, bvars, call, effects, browser,
                 pages, ticket>>

\* ---- GoogleMapsScraper ----

\* GoogleMapsScraper.getBusinessDetails(businessUrl), up to its first await
\* or its throw.
ScraperGetBusinessDetails ==
  /\ call.target = "GoogleMapsScraper"
  /\ call.op = "getBusinessDetails"
  /\ searchPc = "idle"
  /\ IF IsMissing(call.businessUrl)
       THEN Settle(Failure("Business URL is required")) /\ UNCHANGED effects
       ELSE LaunchBrowser
  /\ UNCHANGED <<config, lvars, qvars, rvars, cvars, mvars, dvars, bvars, call, pending, browser,
                 pages, ticket>>

NextDetails ==
  \/ MapsGetBusinessDetails \/ MapsDetailsApiSettles
  \/ MapsDetailsScraperSettles
  \/ ProcessQueueResume \/ TimePasses
  \/ PlacesGetBusinessDetails \/ PlacesRequest
  \/ PlacesDetailsRequestSettles \/ PlacesDetailsResponse
  \/ ScraperGetBusinessDetails \/ LaunchSettles \/ NewPageSettles
  \/ PageStepSettles \/ EvaluateSettles \/ PageCloses

SpecDetails == InitDetails /\ [][NextDetails]_vars

\* Either operation, on any of the three clients.
SpecMaps == (InitSearch \/ InitDetails) /\ [][NextSearch \/ NextDetails]_vars

\* ------------------------------------------------------------------------
\* The records of a search: mapSearchResults, mapScrapedResults,
\* mapApiResults, mapScraperResults and slice in MapsClient.searchBusinesses
\*
\* The specifications above follow every await of a search and keep only
\* the number of records; this one keeps the records and takes each source
\* call as one step that delivers a list or fails.
\* ------------------------------------------------------------------------

Null == [null |-> TRUE]

\* JavaScript truthiness of a value that is undefined, null, a string or a
\* number
Truthy(v) == v \notin {Undefined, Null, Str(""), Num(0)}

\* The sequences over S of length at most n.
SeqsUpTo(S, n) == UNION { [1..k -> S] : k \in 0..n }

\* A place of response.data.results.
Place(place_id, name, formatted_address, lat) ==
  [place_id |-> place_id, name |-> name,
   formatted_address |-> formatted_address, lat |-> lat, lng |-> Num(82)]

\* The entries of response.data.results: null, three complete places (one
\* of latitude 0), and places without place_id, with an empty place_id,
\* with an empty name, without formatted_address, without
\* geometry.location.lat, without geometry.location.lng.
RawApiResults ==
  { Null,
    Place(Str("p1"), Str("A"), Str("1 Main St"), Num(27)),
    Place(Str("p2"), Str("B"), Str("2 Main St"), Num(28)),
    Place(Str("p3"), Str("C"), Str("3 Main St"), Num(0)),
    Place(Undefined, Str("A"), Str("1 Main St"), Num(27)),
    Place(Str(""), Str("A"), Str("1 Main St"), Num(27)),
    Place(Str("p1"), Str(""), Str("1 Main St"), Num(27)),
    Place(Str("p1"), Str("A"), Undefined, Num(27)),
    Place(Str("p1"), Str("A"), Str("1 Main St"), Undefined),
    [Place(Str("p1"), Str("A"), Str("1 Main St"), Num(27))
       EXCEPT !.lng = Undefined] }

\* One more valid place than the default maxResults.
LongApiList ==
  [i \in 1..(DefaultMaxResults + 1) |->
     Place(Str("p" \o ToString(i)), Str("A"), Str("1 Main St"), Num(27))]

RawApiLists == SeqsUpTo(RawApiResults, MaxRecords) \cup {LongApiList}

\* The entries of the array page.evaluate returns: null, two complete
\* entries, and entries whose name or address is missing or empty.
RawScrapedResults ==
  { Null,
    [name |-> Str("A"), address |-> Str("1 Main St")],
    [name |-> Str("B"), address |-> Str("2 Main St")],
    [name |-> Undefined, address |-> Str("1 Main St")],
    [name |-> Str(""), address |-> Str("1 Main St")],
    [name |-> Str("A"), address |-> Undefined],
    [name |-> Str("A"), address |-> Str("")] }

RawScrapedLists == SeqsUpTo(RawScrapedResults, MaxRecords)

\* A place accepted without a place_id.
IsValidSearchResult_NoPlaceId(result) ==
  /\ result # Null
  /\ Truthy(result.name)
  /\ Truthy(result.formatted_address)
  /\ result.lat # Undefined
  /\ result.lng # Undefined

\* A place tested with result.geometry?.location?.lat && ...lng.
IsValidSearchResult_TruthyCoordinates(result) ==
  /\ result # Null
  /\ Truthy(result.place_id)
  /\ Truthy(result.name)
  /\ Truthy(result.formatted_address)
  /\ Truthy(result.lat)
  /\ Truthy(result.lng)

\* GooglePlacesClient.isValidSearchResult
IsValidSearchResult(result) ==
  /\ result # Null
  /\ Truthy(result.place_id)
  /\ Truthy(result.name)
  /\ Truthy(result.formatted_address)
  /\ result.lat # Undefined
  /\ result.lng # Undefined

\* GooglePlacesClient.mapSearchResults: filter, then map
MapSearchResults(results) ==
  LET valid == SelectSeq(results, IsValidSearchResult)
  IN [i \in 1..Len(valid) |->
        [id |-> valid[i].place_id, name |-> valid[i].name,
         address |-> valid[i].formatted_address,
         location |-> [latitude |-> valid[i].lat,
                       longitude |-> valid[i].lng]]]

\* GoogleMapsScraper.isValidScrapedResult
IsValidScrapedResult(result) ==
  /\ result # Null
  /\ Truthy(result.name)
  /\ Truthy(result.address)

\* GoogleMapsScraper.mapScrapedResults: filter, then map
MapScrapedResults(results) ==
  LET valid == SelectSeq(results, IsValidScrapedResult)
  IN [i \in 1..Len(valid) |->
        [name |-> valid[i].name, address |-> valid[i].address]]

\* MapsClient.mapApiResults, on the records
MapApiRecords(results) ==
  [i \in 1..Len(results) |->
     [id |-> results[i].id, name |-> results[i].name,
      address |-> results[i].address, location |-> results[i].location,
      source |-> "api"]]

\* MapsClient.mapScraperResults, on the records
MapScraperRecords(results) ==
  [i \in 1..Len(results) |->
     [name |-> results[i].name, address |-> results[i].address,
      source |-> "scraper"]]

\* The last `end` elements instead of the first.
ArraySlice_FromEnd(array, start, end) ==
  SubSeq(array, Len(array) - Min(end, Len(array)) + 1, Len(array))

\* Array.prototype.slice(start, end), for 0 <= start and 0 <= end
ArraySlice(array, start, end) ==
  SubSeq(array, start + 1, Min(end, Len(array)))

\* Calls of MapsClient.searchBusinesses with valid input.
DataCalls ==
  [op : {"searchBusinesses"}, query : {"pizza"}, location : {"Tampa, FL"},
   hasPlacesClient : BOOLEAN, hasScraper : BOOLEAN,
   preferApi : {Undefined, [bool |-> TRUE], [bool |-> FALSE]},
   useApiFirst : {TRUE},
   maxResults : {Undefined} \cup { Num(n) : n \in 0..MaxRecords },
   respectRobots : {TRUE}]

InitData ==
  /\ IdleDefaultLimiter
  /\ config = [requestsPerSecond |-> 0, maxRetries |-> 0, baseDelay |-> 0,
               maxDelay |-> 0, backoffMultiplier |-> 0]
  /\ IdleQueue
  /\ IdleRetry
  /\ IdleClassify
  /\ IdleSearch
  /\ IdleSessions
  /\ mapsCall \in DataCalls
  /\ mapsPc = "idle"
  /\ mapsOutcome = [kind |-> "none"]
  /\ operation = "none"
  /\ delayUntil = 0
  /\ dataPc = "idle"
  /\ rawResults = <<>>
  /\ sourceResults = <<>>
  /\ unifiedResults = <<>>
  /\ elements = <<>>

\* return unifiedResults.slice(0, maxResults)
DataReturn(unified) ==
  /\ unifiedResults' = ArraySlice(unified, 0, MaxResults)
  /\ dataPc' = "resolved"

\* "Try scraper as fallback or primary method", or the final throw.
DataTryScraper ==
  dataPc' = IF mapsCall.hasScraper THEN "scraper" ELSE "rejected"

\* searchBusinesses up to its first source call.
DataSearchBusinesses ==
  /\ mapsCall.op = "searchBusinesses"
  /\ dataPc = "idle"
  /\ dataPc' = IF PreferApi /\ mapsCall.hasPlacesClient
                 THEN "api"
               ELSE IF mapsCall.hasScraper THEN "scraper"
               ELSE "rejected"
  /\ UNCHANGED <<config, lvars, qvars, rvars, cvars, svars, mvars, rawResults,
                 sourceResults, unifiedResults, elements, bvars>>

\* The structured search tried first returns its mapped records, which are
\* returned if there are any, or fails.
DataApiReturns ==
  /\ dataPc = "api"
  /\ \/ \E raw \in RawApiLists :
          /\ rawResults' = raw
          /\ sourceResults' = MapSearchResults(raw)
          /\ LET unified == MapApiRecords(sourceResults')
             IN IF Len(unified) > 0
                  THEN DataReturn(unified)
                  ELSE DataTryScraper /\ UNCHANGED unifiedResults
     \/ /\ DataTryScraper
        /\ UNCHANGED <<rawResults, sourceResults, unifiedResults>>
  /\ UNCHANGED <<config, lvars, qvars, rvars, cvars, svars, mvars, bvars, elements>>

\* The scraper search returns its mapped records, which are returned, or
\* fails.
DataScraperReturns ==
  /\ dataPc = "scraper"
  /\ \/ \E raw \in RawScrapedLists :
          /\ rawResults' = raw
          /\ sourceResults' = MapScrapedResults(raw)
          /\ DataReturn(MapScraperRecords(sourceResults'))
     \/ /\ dataPc' = IF ShouldTryApiLast THEN "apiLast" ELSE "rejected"
        /\ UNCHANGED <<rawResults, sourceResults, unifiedResults>>
  /\ UNCHANGED <<config, lvars, qvars, rvars, cvars, svars, mvars, bvars, elements>>

\* The structured search tried in the scraper's catch block returns its
\* mapped records, which are returned, or fails.
DataApiLastReturns ==
  /\ dataPc = "apiLast"
  /\ \/ \E raw \in RawApiLists :
          /\ rawResults' = raw
          /\ sourceResults' = MapSearchResults(raw)
          /\ DataReturn(MapApiRecords(sourceResults'))
     \/ /\ dataPc' = "rejected"
        /\ UNCHANGED <<rawResults, sourceResults, unifiedResults>>
  /\ UNCHANGED <<config, lvars, qvars, rvars, cvars, svars, mvars, bvars, elements>>

NextData ==
  \/ DataSearchBusinesses \/ DataApiReturns \/ DataScraperReturns
  \/ DataApiLastReturns

SpecData == InitData /\ [][NextData]_vars

\* ------------------------------------------------------------------------
\* The browser session of one GoogleMapsScraper under concurrent calls:
\* launchBrowser, browser.newPage, page.close, cleanup
\*
\* Each call of searchBusinesses or getBusinessDetails is taken from its
\* call of launchBrowser on; browsers are numbered in the order in which
\* chromium.launch creates them.
\* ------------------------------------------------------------------------

\* ------------------------------------------------------------------------
\* The numeric fields of a scraped record: the page function's extraction
\* of the Rating and Reviews texts and the parse in mapScrapedResults and
\* mapScrapedDetails
\* ------------------------------------------------------------------------

\* The not-a-number value.
NaN == [nan |-> TRUE]

IsDigit(ch) == ch \in {"0", "1", "2", "3", "4", "5", "6", "7", "8", "9"}

\* The longest prefix of s made of decimal digits.
RECURSIVE LeadingDigits(_)
LeadingDigits(s) ==
  IF Len(s) > 0 /\ IsDigit(SubSeq(s, 1, 1))
    THEN SubSeq(s, 1, 1) \o LeadingDigits(SubSeq(s, 2, Len(s)))
    ELSE ""

\* The number a string of decimal digits denotes.
RECURSIVE DigitsValue(_)
DigitsValue(s) ==
  IF Len(s) = 0 THEN 0
  ELSE 10 * DigitsValue(SubSeq(s, 1, Len(s) - 1))
         + (CHOOSE d \in 0..9 : ToString(d) = SubSeq(s, Len(s), Len(s)))

RECURSIVE StripTrailingZeros(_)
StripTrailingZeros(s) ==
  IF Len(s) > 0 /\ SubSeq(s, Len(s), Len(s)) = "0"
    THEN StripTrailingZeros(SubSeq(s, 1, Len(s) - 1))
    ELSE s

\* The number with the given sign, integer part and fraction digits: Num(n)
\* when there is no fraction.
Decimal(sign, int, frac) ==
  IF StripTrailingZeros(frac) = ""
    THEN Num(sign * int)
    ELSE [num |-> int, frac |-> StripTrailingZeros(frac), sign |-> sign]

\* s without a leading sign, and the sign.
Unsigned(s) ==
  IF Len(s) > 0 /\ SubSeq(s, 1, 1) \in {"+", "-"}
    THEN SubSeq(s, 2, Len(s)) ELSE s

SignOf(s) == IF Len(s) > 0 /\ SubSeq(s, 1, 1) = "-" THEN -1 ELSE 1

\* parseFloat(string): leading white space is skipped and the longest
\* prefix that is a decimal literal is converted; NaN when there is none
\* (texts with an exponent or 'Infinity' do not occur).
ParseFloat(s) ==
  LET t == TrimStart(s)
      u == Unsigned(t)
      int == LeadingDigits(u)
      rest == SubSeq(u, Len(int) + 1, Len(u))
      frac == IF Len(rest) > 0 /\ SubSeq(rest, 1, 1) = "."
                THEN LeadingDigits(SubSeq(rest, 2, Len(rest)))
                ELSE ""
  IN IF int = "" /\ frac = ""
       THEN NaN
       ELSE Decimal(SignOf(t), DigitsValue(int), frac)

\* parseInt(string): leading white space is skipped and the longest prefix
\* of decimal digits is converted; NaN when there is none (texts that begin
\* with 0x do not occur).
ParseInt(s) ==
  LET t == TrimStart(s)
      int == LeadingDigits(Unsigned(t))
  IN IF int = "" THEN NaN ELSE Num(SignOf(t) * DigitsValue(int))

\* text.replace(/[^\d]/g, '')
RECURSIVE ReplaceNonDigits(_)
ReplaceNonDigits(s) ==
  IF Len(s) = 0 THEN ""
  ELSE (IF IsDigit(SubSeq(s, 1, 1)) THEN SubSeq(s, 1, 1) ELSE "")
         \o ReplaceNonDigits(SubSeq(s, 2, Len(s)))

\* element?.textContent?.trim()
TrimmedText(text) == IF text = Undefined THEN Undefined ELSE Str(Trim(text.str))

\* reviewsElement?.textContent?.trim()?.replace(/[^\d]/g, '')
DigitsOfText(text) ==
  IF text = Undefined THEN Undefined
                      ELSE Str(ReplaceNonDigits(Trim(text.str)))

\* result.rating ? parseFloat(result.rating) : undefined
RatingOf(text) == IF Truthy(text) THEN ParseFloat(text.str) ELSE Undefined

\* result.reviewCount ? parseInt(result.reviewCount) : undefined
ReviewCountOf(text) == IF Truthy(text) THEN ParseInt(text.str) ELSE Undefined

\* The textContent of a Rating element, or Undefined when the result has
\* no such element.
RatingTexts ==
  { Undefined, Str(""), Str("4.5"), Str(" 4.5 "), Str("5"), Str("0"),
    Str("4.50"), Str("4.5 stars"), Str("New"), Str("No rating") }

\* The textContent of a Reviews element, or Undefined when the result has
\* no such element.
ReviewsTexts ==
  { Undefined, Str(""), Str("120"), Str("(1,234)"), Str("120 reviews"),
    Str("0"), Str("No reviews") }

InitParse ==
  /\ IdleDefaultLimiter
  /\ config = [requestsPerSecond |-> 0, maxRetries |-> 0, baseDelay |-> 0,
               maxDelay |-> 0, backoffMultiplier |-> 0]
  /\ IdleQueue
  /\ IdleRetry
  /\ IdleClassify
  /\ IdleSearch
  /\ IdleMaps
  /\ IdleSessions
  /\ dataPc = "page"
  /\ rawResults = <<>>
  /\ sourceResults = <<>>
  /\ unifiedResults = <<>>
  /\ elements \in [rating : RatingTexts, reviews : ReviewsTexts]

\* The page function of searchBusinesses or getBusinessDetails returns: the
\* texts of a result that has a name and an address.
ParseEvaluate ==
  /\ dataPc = "page"
  /\ rawResults' = <<[name |-> Str("A"), address |-> Str("1 Main St"),
                      rating |-> TrimmedText(elements.rating),
                      reviewCount |-> DigitsOfText(elements.reviews)]>>
  /\ \E op \in {"searchBusinesses", "getBusinessDetails"} :
       dataPc' = "evaluated." \o op
  /\ UNCHANGED <<config, lvars, qvars, rvars, cvars, svars, mvars, bvars,
                 sourceResults, unifiedResults, elements>>

\* return this.mapScrapedResults(businesses)
ParseMapResults ==
  /\ dataPc = "evaluated.searchBusinesses"
  /\ LET valid == SelectSeq(rawResults, IsValidScrapedResult)
     IN sourceResults' =
          [i \in 1..Len(valid) |->
             [name |-> valid[i].name, address |-> valid[i].address,
              rating |-> RatingOf(valid[i].rating),
              reviewCount |-> ReviewCountOf(valid[i].reviewCount)]]
  /\ dataPc' = "mapped"
  /\ UNCHANGED <<config, lvars, qvars, rvars, cvars, svars, mvars, bvars,
                 rawResults, unifiedResults, elements>>

\* return this.mapScrapedDetails(details)
ParseMapDetails ==
  /\ dataPc = "evaluated.getBusinessDetails"
  /\ LET details == rawResults[1]
     IN sourceResults' =
          <<[name |-> details.name, address |-> details.address,
             rating |-> RatingOf(details.rating),
             reviewCount |-> ReviewCountOf(details.reviewCount)]>>
  /\ dataPc' = "mapped"
  /\ UNCHANGED <<config, lvars, qvars, rvars, cvars, svars, mvars, bvars,
                 rawResults, unifiedResults, elements>>

NextParse == ParseEvaluate \/ ParseMapResults \/ ParseMapDetails

SpecParse == InitParse /\ [][NextParse]_vars

\* ------------------------------------------------------------------------
\* DefaultRateLimiter: the limiter of a GooglePlacesClient constructed
\* without one
\* ------------------------------------------------------------------------

\* private readonly minInterval = 100
minInterval == 100

\* Granularity of the call times explored: a quarter of minInterval.
DefaultTickMs == minInterval \div 4

\* Date.now() when the limiter is constructed: long after time 0, the
\* initial lastRequestTime.
InitDefaultLimiter ==
  /\ config = [requestsPerSecond |-> 0, maxRetries |-> 0, baseDelay |-> 0,
               maxDelay |-> 0, backoffMultiplier |-> 0]
  /\ requestQueue = <<>>
  /\ processing = FALSE
  /\ drains = <<>>
  /\ now = 10 * minInterval
  /\ calls = <<>>
  /\ released = <<>>
  /\ releasedAt = <<>>
  /\ IdleRetry
  /\ IdleClassify
  /\ IdleSearch
  /\ IdleMaps
  /\ IdleData
  /\ IdleSessions
  /\ lastRequestTime = 0
  /\ sleepers = <<>>

\* this.lastRequestTime = Date.now(), and the promise of
\* waitForNextRequest fulfils: the caller is released.
DefaultRelease(caller) ==
  /\ lastRequestTime' = now
  /\ released' = Append(released, caller)
  /\ releasedAt' = Append(releasedAt, now)

\* A caller calls waitForNextRequest(): with less than minInterval since
\* lastRequestTime it awaits a setTimeout of the remainder, otherwise it
\* runs to the end.
DefaultWaitForNextRequest ==
  /\ Len(calls) < MaxCallers
  /\ now <= (10 + MaxIntervals) * minInterval
  /\ LET caller == Len(calls) + 1
         timeSinceLastRequest == now - lastRequestTime
     IN /\ calls' = Append(calls, [timestamp |-> now, started |-> FALSE])
        /\ IF timeSinceLastRequest < minInterval
             THEN /\ sleepers' =
                       Append(sleepers,
                              [caller |-> caller,
                               until |-> now + (minInterval - timeSinceLastRequest)])
                  /\ UNCHANGED <<lastRequestTime, released, releasedAt>>
             ELSE /\ DefaultRelease(caller)
                  /\ UNCHANGED sleepers
  /\ UNCHANGED <<config, rvars, cvars, svars, mvars, dvars, bvars,
                 requestQueue, processing, drains, now>>

\* The setTimeout of a waiting caller fires: it resumes after the await.
DefaultTimerFires ==
  /\ \E i \in 1..Len(sleepers) :
       /\ sleepers[i].until = now
       /\ \A j \in 1..(i - 1) : sleepers[j].until # now
       /\ DefaultRelease(sleepers[i].caller)
       /\ sleepers' = RemoveAt(sleepers, i)
  /\ UNCHANGED <<config, rvars, cvars, svars, mvars, dvars, bvars,
                 requestQueue, processing, drains, now, calls>>

\* Time passes, up to the next due timer.
DefaultTick ==
  /\ \/ Len(sleepers) > 0
     \/ now < (10 + MaxIntervals) * minInterval
  /\ LET due == {sleepers[i].until : i \in 1..Len(sleepers)}
         step == IF due # {}
                   THEN Min(DefaultTickMs,
                            (CHOOSE t \in due : \A u \in due : t <= u) - now)
                   ELSE DefaultTickMs
     IN /\ step > 0
        /\ now' = now + step
  /\ UNCHANGED <<config, rvars, cvars, svars, mvars, dvars, bvars, lvars,
                 requestQueue, processing, drains, calls, released,
                 releasedAt>>

NextDefaultLimiter ==
  DefaultWaitForNextRequest \/ DefaultTimerFires \/ DefaultTick

SpecDefaultLimiter == InitDefaultLimiter /\ [][NextDefaultLimiter]_vars

\* The MapsClient whose cleanup() is called: its constructor made
\* this.scraper (scraping.enabled), or it did not.
MapsCleanupCalls ==
  {[op |-> "cleanup", hasScraper |-> s] : s \in BOOLEAN}

InitSessions ==
  /\ IdleDefaultLimiter
  /\ config = [requestsPerSecond |-> 0, maxRetries |-> 0, baseDelay |-> 0,
               maxDelay |-> 0, backoffMultiplier |-> 0]
  /\ IdleQueue
  /\ IdleData
  /\ IdleRetry
  /\ IdleClassify
  /\ IdleSearch
  /\ mapsCall \in MapsCleanupCalls
  /\ mapsPc = "idle"
  /\ mapsOutcome = [kind |-> "none"]
  /\ operation = "none"
  /\ delayUntil = 0
  /\ thisBrowser = 0
  /\ launches = 0
  /\ closed = {}
  /\ closeCalls = <<>>
  /\ scrapes = <<>>

\* A scraping call reaches const browser = await this.launchBrowser():
\* with no this.browser it awaits chromium.launch, otherwise launchBrowser
\* returns this.browser and the call awaits browser.newPage().
SessionScrape ==
  /\ Len(scrapes) < MaxScrapes
  /\ scrapes' = Append(scrapes,
                       IF thisBrowser = 0
                         THEN [op |-> "scrape", pc |-> "launch",
                               browser |-> 0, page |-> 0]
                         ELSE [op |-> "scrape", pc |-> "newPage",
                               browser |-> thisBrowser, page |-> 0])
  /\ UNCHANGED <<config, lvars, qvars, rvars, cvars, svars, mvars, dvars,
                 thisBrowser, launches, closed, closeCalls>>

\* chromium.launch settles for one call: this.browser is assigned the new
\* browser and returned, and the call awaits browser.newPage(); or the
\* launch fails and so does the call.
SessionLaunched ==
  /\ \E c \in 1..Len(scrapes) :
       /\ scrapes[c].pc = "launch"
       /\ \/ /\ launches' = launches + 1
             /\ thisBrowser' = launches + 1
             /\ scrapes' = [scrapes EXCEPT ![c].pc = "newPage",
                                           ![c].browser = launches + 1]
          \/ /\ scrapes' = [scrapes EXCEPT ![c].pc = "rejected"]
             /\ UNCHANGED <<thisBrowser, launches>>
  /\ UNCHANGED <<config, lvars, qvars, rvars, cvars, svars, mvars, dvars, closed,
                 closeCalls>>

\* browser.newPage() settles for one call: the page is open in the call's
\* browser, or that browser has been closed and the call fails.
SessionPageOpened ==
  /\ \E c \in 1..Len(scrapes) :
       /\ scrapes[c].pc = "newPage"
       /\ scrapes' = IF scrapes[c].browser \in closed
                       THEN [scrapes EXCEPT ![c].pc = "rejected"]
                       ELSE [scrapes EXCEPT ![c].pc = "page",
                                            ![c].page = scrapes[c].browser]
  /\ UNCHANGED <<config, lvars, qvars, rvars, cvars, svars, mvars, dvars,
                 thisBrowser, launches, closed, closeCalls>>

\* The try block of one call ends and its finally block has closed the
\* page: the call settles.
SessionPageClosed ==
  /\ \E c \in 1..Len(scrapes) :
       /\ scrapes[c].pc = "page"
       /\ scrapes' = [scrapes EXCEPT ![c].pc = "settled"]
  /\ UNCHANGED <<config, lvars, qvars, rvars, cvars, svars, mvars, dvars,
                 thisBrowser, launches, closed, closeCalls>>

\* The body of GoogleMapsScraper.cleanup() for the call numbered c of
\* operation op: with a this.browser it calls this.browser.close() and
\* awaits it; with none it returns.
ScraperCleanup(c, op) ==
  IF thisBrowser # 0
    THEN /\ closed' = closed \cup {thisBrowser}
         /\ closeCalls' = Append(closeCalls,
                                 [by |-> c, browser |-> thisBrowser])
         /\ scrapes' = Append(scrapes, [op |-> op, pc |-> "close",
                                        browser |-> thisBrowser,
                                        page |-> 0])
    ELSE /\ scrapes' = Append(scrapes, [op |-> op, pc |-> "settled",
                                        browser |-> 0, page |-> 0])
         /\ UNCHANGED <<closed, closeCalls>>

\* GoogleMapsScraper.cleanup() is called on the scraper.
SessionCleanup ==
  /\ Len(scrapes) < MaxScrapes
  /\ ScraperCleanup(Len(scrapes) + 1, "cleanup")
  /\ UNCHANGED <<config, lvars, qvars, rvars, cvars, svars, mvars, dvars,
                 thisBrowser, launches>>

\* MapsClient.cleanup(): with a this.scraper it awaits
\* this.scraper.cleanup(); with none it returns.
MapsCleanup ==
  /\ Len(scrapes) < MaxScrapes
  /\ IF mapsCall.hasScraper
       THEN ScraperCleanup(Len(scrapes) + 1, "MapsClient.cleanup")
       ELSE /\ scrapes' = Append(scrapes, [op |-> "MapsClient.cleanup",
                                           pc |-> "settled",
                                           browser |-> 0, page |-> 0])
            /\ UNCHANGED <<closed, closeCalls>>
  /\ UNCHANGED <<config, lvars, qvars, rvars, cvars, svars, mvars, dvars,
                 thisBrowser, launches>>

\* this.browser.close() settles without assigning this.browser.
SessionClosed_KeepsSession ==
  /\ \E c \in 1..Len(scrapes) :
       /\ scrapes[c].pc = "close"
       /\ scrapes' = [scrapes EXCEPT ![c].pc = "settled"]
  /\ UNCHANGED <<config, lvars, qvars, rvars, cvars, svars, mvars, dvars,
                 thisBrowser, launches, closed, closeCalls>>

\* this.browser.close() settles: this.browser = null.
SessionClosed ==
  /\ \E c \in 1..Len(scrapes) :
       /\ scrapes[c].pc = "close"
       /\ scrapes' = [scrapes EXCEPT ![c].pc = "settled"]
  /\ thisBrowser' = 0
  /\ UNCHANGED <<config, lvars, qvars, rvars, cvars, svars, mvars, dvars,
                 launches, closed, closeCalls>>

NextSessions ==
  \/ SessionScrape \/ SessionLaunched \/ SessionPageOpened
  \/ SessionPageClosed \/ SessionCleanup \/ MapsCleanup \/ SessionClosed

SpecSessions == InitSessions /\ [][NextSessions]_vars

\* ------------------------------------------------------------------------
\* Claims on the pacing queue
\* ------------------------------------------------------------------------

IsReleased(c) == \E i \in 1..Len(released) : released[i] = c

ReleaseTime(c) == releasedAt[CHOOSE i \in 1..Len(released) : released[i] = c]

\* The call that started the processQueue loop serving caller c.
DrainStarter(c) ==
  CHOOSE b \in 1..c :
    /\ calls[b].started
    /\ \A b2 \in (b + 1)..c : ~calls[b2].started

\* C1: callers are released in exactly the order in which they called
\* waitForNextRequest (callers are numbered 1, 2, ... in call order): the
\* i-th release is always that of the i-th caller.
C1_StrictFifo ==
  \A i \in 1..Len(released) : released[i] = i

\* Three callers released, one of which enqueued while a drain loop was
\* suspended in its delay and had to wait for its turn.
C1_Witness ==
  /\ Len(released) >= 3
  /\ \E c \in 1..Len(released) :
       /\ ~calls[c].started
       /\ calls[c].timestamp > 0
       /\ releasedAt[c] > calls[c].timestamp

\* C2: every call to waitForNextRequest is eventually released, exactly
\* once (no caller is released twice, none is both queued and released),
\* and a caller is never left in the queue without a drain loop that is
\* going to wake up.
C2_EveryCallerReleasedOnce ==
  /\ [](/\ \A i, j \in 1..Len(released) : released[i] = released[j] => i = j
        /\ \A k \in 1..Len(requestQueue) : ~IsReleased(requestQueue[k].caller)
        /\ Len(requestQueue) > 0 => (processing /\ Len(drains) > 0))
  /\ \A c \in 1..MaxCallers : (Len(calls) >= c) ~> IsReleased(c)

\* A caller that enqueued while the drain loop was in the delay that follows
\* the release of the last queued caller (the queue was empty, processing
\* was still true) has been released.
C2_Witness ==
  \E c \in 2..Len(calls) :
    /\ ~calls[c].started
    /\ IsReleased(c) /\ IsReleased(c - 1)
    /\ ReleaseTime(c - 1) < calls[c].timestamp
    /\ ReleaseTime(c) > calls[c].timestamp

\* C3: with requestsPerSecond = N > 0 configured, callers that enqueue at
\* the same instant on an idle limiter (the first of them found processing
\* false) are released k * (1000 / N) ms after enqueueing, k = 0, 1, ...
\* being the caller's position in the burst; the first with zero delay.
C3_BurstReleaseTimes ==
  config.requestsPerSecond > 0 =>
    \A c \in 1..Len(calls) :
      LET b == DrainStarter(c) IN
        (IsReleased(c) /\ calls[c].timestamp = calls[b].timestamp) =>
          ReleaseTime(c) =
            calls[c].timestamp + (c - b) * (1000 \div config.requestsPerSecond)

\* A burst of three callers at one instant, not the start of time, all
\* released.
C3_Witness ==
  /\ config.requestsPerSecond > 0
  /\ \E b \in 1..Len(calls) :
       /\ calls[b].started
       /\ calls[b].timestamp > 0
       /\ b + 2 <= Len(calls)
       /\ calls[b + 2].timestamp = calls[b].timestamp
       /\ ~calls[b + 1].started /\ ~calls[b + 2].started
       /\ IsReleased(b + 2)

\* C4: at most one processQueue loop is active at any time.
C4_SingleDrain == Len(drains) <= 1

\* A drain loop is suspended while two callers wait in the queue and a
\* further caller has already been released.
C4_Witness ==
  /\ Len(drains) = 1
  /\ Len(requestQueue) >= 2
  /\ Len(released) >= 1


\* Every caller that was queued has been released and the queue is empty.
QueueDrained ==
  /\ Len(calls) > 0
  /\ Len(requestQueue) = 0
  /\ Len(released) = Len(calls)

\* C32 as stated: processing is false before the first enqueue, true after
\* an enqueue into an idle limiter, and false in every state in which the
\* queue is empty and the last queued caller has been released.
C32_ProcessingOnlyWhileCallersWait ==
  /\ [](Len(calls) = 0 => ~processing)
  /\ [][(Len(calls') > Len(calls) /\ ~processing) => processing']_vars
  /\ [](QueueDrained => ~processing)

\* C32, amended: processing is false before the first enqueue, becomes true
\* on an enqueue into an idle limiter, is true while callers wait in the
\* queue and while the drain loop's wait after a release is pending, and
\* becomes false when that wait, one interval after the release that
\* emptied the queue, ends with the queue still empty; so in every state in
\* which the queue is empty and no wait of the drain loop is pending
\* (more than one interval after the last release), processing is false.
C32_ProcessingWhileDrainLoopActive ==
  /\ [](Len(calls) = 0 => ~processing)
  /\ [][(Len(calls') > Len(calls) /\ ~processing) => processing']_vars
  /\ [](Len(requestQueue) > 0 => processing)
  /\ [](processing <=> Len(drains) > 0)
  /\ [](QueueDrained =>
          /\ now < releasedAt[Len(releasedAt)] + Interval => processing
          /\ now > releasedAt[Len(releasedAt)] + Interval => ~processing)
  /\ [][(processing /\ ~processing') =>
          /\ Len(requestQueue') = 0
          /\ Len(released') = Len(calls')
          /\ now = releasedAt[Len(releasedAt)] + Interval]_vars

\* Two callers were released, the wait after the last release has ended and
\* left the limiter idle.
C32_Witness ==
  /\ QueueDrained
  /\ Len(calls) >= 2
  /\ now > releasedAt[Len(releasedAt)] + Interval
  /\ ~processing

\* C37: any two consecutive releases of one limiter are at least
\* 1000 / requestsPerSecond ms apart, whatever the pattern of arrivals.
C37_MinimumSpacing ==
  \A i \in 2..Len(releasedAt) :
    releasedAt[i] - releasedAt[i - 1] >= 1000 \div requestsPerSecond

\* All of a burst, an arrival during the wait that follows the release
\* which emptied the queue, and an arrival on the idle limiter after the
\* queue has drained, have been released.
C37_Witness ==
  /\ Len(released) = Len(calls)
  /\ \E b \in 1..Len(calls) :
       /\ b + 1 <= Len(calls)
       /\ calls[b].started /\ ~calls[b + 1].started
       /\ calls[b + 1].timestamp = calls[b].timestamp
  /\ \E c \in 2..Len(calls) :
       /\ ~calls[c].started
       /\ ReleaseTime(c - 1) < calls[c].timestamp
  /\ \E c \in 2..Len(calls) : calls[c].started

\* ------------------------------------------------------------------------
\* Claims on retryWithBackoff and isRetryableError
\* ------------------------------------------------------------------------

\* The classification as the specification words it: status 429, 503 or
\* 504, or code ECONNRESET or ETIMEDOUT, or a message that contains
\* "timeout" or "network".
ClaimedRetryable(error) ==
  /\ error # Undefined
  /\ \/ error.status \in {Num(429), Num(503), Num(504)}
     \/ error.code \in {Str("ECONNRESET"), Str("ETIMEDOUT")}
     \/ /\ IsString(error.message)
        /\ \/ Includes(error.message.str, "timeout")
           \/ Includes(error.message.str, "network")

\* Every settled invocation so far failed with a retryable error.
AllAttemptsRetryable ==
  \A i \in 1..Len(attempts) :
    ~attempts[i].ok /\ ClaimedRetryable(attempts[i].error.shape)

\* C5: for every configured maxRetries >= 0, an operation that fails with a
\* retryable error on every attempt is invoked exactly maxRetries + 1 times
\* (never more), and retryWithBackoff then fails.
C5_InvokesMaxRetriesPlusOne ==
  AllAttemptsRetryable =>
    /\ invocations <= config.maxRetries + 1
    /\ retryPc = "rejected" => invocations = config.maxRetries + 1

C7_BackoffDelays ==
  /\ Len(waits) <= Len(attempts)
  /\ \A n \in 1..Len(waits) :
       /\ ~attempts[n].ok
       /\ waits[n] = Min(baseDelay * Pow(backoffMultiplier, n - 1), maxDelay)
  /\ retryPc = "rejected" => Len(waits) = Len(attempts) - 1
  /\ (/\ config.baseDelay = 1000 /\ config.backoffMultiplier = 2
      /\ config.maxDelay = 3000 /\ config.maxRetries = 5
      /\ retryPc = "rejected"
      /\ AllAttemptsRetryable) =>
       waits = <<1000, 2000, 3000, 3000, 3000>>

\* The capped scenario has run to its failure.
C7_Witness ==
  /\ config.baseDelay = 1000 /\ config.backoffMultiplier = 2
  /\ config.maxDelay = 3000 /\ config.maxRetries = 5
  /\ retryPc = "rejected"
  /\ Len(attempts) = 6
  /\ Len(waits) = 5

ValidationOrPolicyFailures ==
  { Error(Undefined, Undefined, Str(m)) :
      m \in {"Query is required", "Location is required",
             "Place ID is required", "Business URL is required",
             "Scraping not allowed by robots.txt"} }

\* C15: an invocation of the operation that fails with a validation or
\* policy-denial error is the last one: no wait and no further invocation
\* follow it and retryWithBackoff fails with that error; when it is the
\* first invocation, the operation has been invoked exactly once.
C15_ValidationAndPolicyNeverRetried ==
  \A i \in 1..Len(attempts) :
    (~attempts[i].ok /\ attempts[i].error.shape \in ValidationOrPolicyFailures) =>
      /\ i = Len(attempts)
      /\ invocations = i
      /\ Len(waits) = i - 1
      /\ retryPc = "rejected"
      /\ retryResult = [kind |-> "error", error |-> attempts[i].error]

\* The first invocation was refused by robots.txt, with retries left, and
\* the call is over after that one invocation.
C15_Witness ==
  /\ maxRetries > 0
  /\ Len(attempts) = 1
  /\ ~attempts[1].ok
  /\ attempts[1].error.shape =
       Error(Undefined, Undefined, Str("Scraping not allowed by robots.txt"))
  /\ invocations = 1
  /\ retryPc = "rejected"

EmptyOrWhitespace(s) ==
  \A i \in 1..Len(s) : SubSeq(s, i, i) \in {" ", "\t", "\n"}

\* Nothing has gone out and nothing has changed: no outbound call, no
\* entry ever put in the pacing queue, no drain loop, no invocation under
\* retryWithBackoff, no page open.
NoActivity ==
  /\ effects = <<>>
  /\ requestQueue = <<>> /\ calls = <<>> /\ drains = <<>> /\ ~processing
  /\ invocations = 0 /\ retryPc = "idle"
  /\ pages = 0

\* C10: in each of the three searchBusinesses, an empty or whitespace-only
\* query fails with "Query is required", and (the query being checked
\* first) an empty or whitespace-only location with a query that passes
\* fails with "Location is required"; in both cases before any enqueue,
\* retry, robots.txt fetch, browser launch or HTTP request, with the queue
\* and the browser session unchanged (and, in MapsClient, before any
\* source client is called).
C10_BlankInputFailsFirst ==
  /\ (call.target # "none" /\ call.op = "searchBusinesses"
        /\ searchPc # "idle") =>
       /\ EmptyOrWhitespace(call.query) =>
            /\ searchPc = "rejected"
            /\ searchOutcome = Failure("Query is required")
            /\ mapsCall.op = "none" => (NoActivity /\ browser = call.browser)
       /\ (~EmptyOrWhitespace(call.query) /\ EmptyOrWhitespace(call.location)) =>
            /\ searchPc = "rejected"
            /\ searchOutcome = Failure("Location is required")
            /\ mapsCall.op = "none" => (NoActivity /\ browser = call.browser)
  /\ (mapsCall.op = "searchBusinesses" /\ mapsPc # "idle") =>
       /\ EmptyOrWhitespace(mapsCall.query) =>
            /\ mapsPc = "rejected"
            /\ mapsOutcome = Failure("Query is required")
            /\ NoActivity /\ browser = "null" /\ call.target = "none"
       /\ (~EmptyOrWhitespace(mapsCall.query)
             /\ EmptyOrWhitespace(mapsCall.location)) =>
            /\ mapsPc = "rejected"
            /\ mapsOutcome = Failure("Location is required")
            /\ NoActivity /\ browser = "null" /\ call.target = "none"

\* A scraper that holds an open browser session has refused a call whose
\* location is whitespace only.
C10_Witness ==
  /\ call.target = "GoogleMapsScraper"
  /\ call.browser = "open"
  /\ call.query = "pizza"
  /\ call.location = " \n"
  /\ searchPc = "rejected"

\* ------------------------------------------------------------------------
\* Claims on MapsClient.searchBusinesses
\* ------------------------------------------------------------------------

\* The event occurs in the history.
Occurs(event) == \E i \in 1..Len(effects) : effects[i] = event

\* The number of occurrences of the event among the first n entries.
CountBefore(event, n) ==
  Cardinality({ i \in 1..Min(n, Len(effects)) : effects[i] = event })

Count(event) == CountBefore(event, Len(effects))

\* The position of the first occurrence (Len + 1 if there is none).
FirstIndex(event) ==
  IF Occurs(event)
    THEN CHOOSE i \in 1..Len(effects) :
           /\ effects[i] = event
           /\ \A j \in 1..(i - 1) : effects[j] # event
    ELSE Len(effects) + 1

\* A MapsClient.searchBusinesses call with valid input.
ValidSearch ==
  /\ mapsCall.op = "searchBusinesses"
  /\ ~EmptyOrWhitespace(mapsCall.query)
  /\ ~EmptyOrWhitespace(mapsCall.location)

\* C11: with preferApi true and a structured client present, once the
\* structured search has completed without error (whatever list it
\* returned) the scraper is not invoked and the call has returned the
\* structured records, tagged 'api'.
C11_ScraperOnlyAfterApiFailure ==
  (ValidSearch /\ PreferApi /\ mapsCall.hasPlacesClient
     /\ Occurs("searchWithApi fulfilled")) =>
    /\ ~Occurs("searchWithScraper")
    /\ mapsPc = "resolved"
    /\ mapsOutcome = Results(Slice(retryResult.value.count, MaxResults), "api")

\* The fixed error of a MapsClient that has nothing to search with.
NoSearchMethods ==
  Failure("No search methods available. Please configure API key or enable scraping.")

\* C12: with valid input, searchBusinesses fails with 'No search methods
\* available' if and only if the MapsClient has neither a structured client
\* nor a scraper (so never when a structured client is configured).
C12_NoMethodsIffNoClient ==
  (ValidSearch /\ mapsPc \in {"resolved", "rejected"}) =>
    (mapsOutcome = NoSearchMethods
       <=> (~mapsCall.hasPlacesClient /\ ~mapsCall.hasScraper))

\* A timeout, a connection reset, or the error the structured client makes
\* of an HTTP 429 response.
TransportFailure(shape) ==
  \/ shape.code \in {Str("ECONNRESET"), Str("ETIMEDOUT")}
  \/ shape.message = Str("Rate limit exceeded. Please try again later.")

\* C13: when the structured search, tried first, has failed for good with
\* a transport error (so that every request before it failed with one and
\* was retried), the structured client has been invoked maxRetries + 1
\* times, and the scraper has not been invoked yet.
C13_TransportErrorsRetriedBeforeFallback ==
  (ValidSearch /\ PreferApi /\ mapsCall.hasPlacesClient
     /\ mapsPc = "maps.api" /\ retryPc = "rejected"
     /\ TransportFailure(retryResult.error.shape)) =>
    /\ Count(InvocationOf("GooglePlacesClient")) = maxRetries + 1
    /\ ~Occurs("searchWithScraper")

\* The first requests a source client sends out: the structured client's
\* HTTP request, the scraper's robots.txt fetch, browser launch, page
\* creation and navigation.
OutboundRequests ==
  {"axios.get textsearch", "axios.get robots.txt", "chromium.launch",
   "browser.newPage", "page.goto"}

\* The invocations of the source clients, as the history names them.
Invocations ==
  {InvocationOf("GooglePlacesClient"), InvocationOf("GoogleMapsScraper")}

\* Entry i of the history comes after a waitForNextRequest of the same
\* invocation of a source client.
WaitedTurn(i) ==
  \E j \in 1..(i - 1) :
    /\ effects[j] = "waitForNextRequest"
    /\ \A k \in j..i : effects[k] \notin Invocations

\* C16: in a MapsClient call, every outbound request of the structured
\* client and every scraping operation of the scraper comes after a
\* waitForNextRequest of that invocation in the MapsClient's rate limiter.
C16_EverySourceRequestQueues ==
  mapsCall.op # "none" =>
    \A i \in 1..Len(effects) :
      effects[i] \in OutboundRequests => WaitedTurn(i)

\* preferApi is b: given so in the options, or not given and
\* config.useApiFirst is b.
PreferApiIs(b) ==
  \/ mapsCall.preferApi = [bool |-> b]
  \/ mapsCall.preferApi = Undefined /\ mapsCall.useApiFirst = b

\* The structured path was attempted before the scraper.
ApiAttemptedFirst ==
  /\ Occurs("searchWithApi")
  /\ FirstIndex("searchWithApi") < FirstIndex("searchWithScraper")

\* C18: in one searchBusinesses call searchWithApi and searchWithScraper
\* are each called at most once, each invoking its source client at most
\* maxRetries + 1 times; and when the structured path was attempted first
\* and the scraper search has failed, the call has failed with the
\* scraper's error.
C18_EachSourceAttemptedOnce ==
  ValidSearch =>
    /\ Count("searchWithApi") <= 1
    /\ Count("searchWithScraper") <= 1
    /\ Count(InvocationOf("GooglePlacesClient")) <= maxRetries + 1
    /\ Count(InvocationOf("GoogleMapsScraper")) <= maxRetries + 1
    /\ (ApiAttemptedFirst /\ Occurs("searchWithScraper rejected")) =>
         /\ mapsPc = "rejected"
         /\ call.target = "GoogleMapsScraper"
         /\ mapsOutcome = searchOutcome

\* The structured search failed, then the scraper search failed, and the
\* call is over.
C18_Witness ==
  /\ ValidSearch
  /\ ApiAttemptedFirst
  /\ Occurs("searchWithApi rejected")
  /\ Occurs("searchWithScraper rejected")
  /\ mapsPc = "rejected"

\* C19: with preferApi false and both clients present, the scraper is
\* searched first; if that search succeeds the structured client is never
\* invoked and the call returns the scraper's records (up to maxResults)
\* tagged 'scraper'; if it fails, searchWithApi is then called exactly
\* once, and the call returns its records tagged 'api' or fails with its
\* error.
C19_ScraperFirstApiLastResort ==
  (ValidSearch /\ PreferApiIs(FALSE)
     /\ mapsCall.hasPlacesClient /\ mapsCall.hasScraper) =>
    /\ mapsPc # "idle" => effects[1] = "searchWithScraper"
    /\ mapsPc \in {"resolved", "rejected"} =>
         \/ Occurs("searchWithScraper fulfilled")
         \/ Occurs("searchWithScraper rejected")
    /\ Occurs("searchWithScraper fulfilled") =>
         /\ ~Occurs("searchWithApi")
         /\ ~Occurs(InvocationOf("GooglePlacesClient"))
         /\ mapsPc = "resolved"
         /\ call.target = "GoogleMapsScraper"
         /\ mapsOutcome = Results(Min(searchOutcome.count, MaxResults), "scraper")
    /\ Occurs("searchWithScraper rejected") =>
         /\ Count("searchWithApi") = 1
         /\ FirstIndex("searchWithApi") = FirstIndex("searchWithScraper rejected") + 1
         /\ Occurs("searchWithApi fulfilled") =>
              /\ mapsPc = "resolved"
              /\ call.target = "GooglePlacesClient"
              /\ mapsOutcome = Results(Min(searchOutcome.count, MaxResults), "api")
         /\ Occurs("searchWithApi rejected") =>
              /\ mapsPc = "rejected"
              /\ call.target = "GooglePlacesClient"
              /\ mapsOutcome = searchOutcome

\* The option preferApi: false overrode useApiFirst: true; the scraper
\* failed and the structured search, the last resort, failed too.
C19_Witness ==
  /\ ValidSearch
  /\ mapsCall.preferApi = [bool |-> FALSE]
  /\ mapsCall.useApiFirst
  /\ Occurs("searchWithScraper rejected")
  /\ Occurs("searchWithApi rejected")
  /\ mapsPc = "rejected"
  /\ mapsOutcome = Failure("Rate limit exceeded. Please try again later.")

\* C20: with preferApi true, a structured search that was rejected and a
\* scraper search that returned a list, the call returns the first
\* maxResults records of that list, tagged 'scraper'.
C20_ApiFailureFallsBackToScraper ==
  (ValidSearch /\ PreferApiIs(TRUE) /\ mapsCall.hasPlacesClient
     /\ Occurs("searchWithApi rejected")
     /\ Occurs("searchWithScraper fulfilled")) =>
    /\ mapsPc = "resolved"
    /\ call.target = "GoogleMapsScraper"
    /\ mapsOutcome = Results(Min(searchOutcome.count, MaxResults), "scraper")

\* The structured search was rejected, the scraper returned two records
\* and, maxResults being 1, the call returned one.
C20_Witness ==
  /\ ValidSearch
  /\ PreferApiIs(TRUE)
  /\ mapsCall.maxResults = Num(1)
  /\ Occurs("searchWithApi rejected")
  /\ searchOutcome = Results(2, "scraped")
  /\ mapsPc = "resolved"
  /\ mapsOutcome = Results(1, "scraper")

\* ------------------------------------------------------------------------
\* Claims on both operations of MapsClient
\* ------------------------------------------------------------------------

\* The MapsClient is about to see the call it awaits on a source reject:
\* searchWithApi / searchWithScraper in searchBusinesses, the source
\* client's getBusinessDetails in getBusinessDetails.
SourceCallFailed ==
  \/ /\ mapsPc \in {"maps.api", "maps.scraper", "maps.apiLast"}
     /\ retryPc = "rejected"
  \/ /\ mapsPc \in {"details.api", "details.scraper"}
     /\ searchPc = "rejected"

\* C14: when a source call of searchBusinesses or getBusinessDetails has
\* failed with a validation error or with 'Scraping not allowed by
\* robots.txt', the MapsClient's next step is to fail with that error: it
\* does not call the other source.
C14_NoFallbackOnValidationOrPolicyFailure ==
  [][(/\ SourceCallFailed
      /\ ShapeOf(searchOutcome) \in ValidationOrPolicyFailures
      /\ mapsPc' # mapsPc)
       => (/\ mapsPc' = "rejected"
           /\ mapsOutcome' = searchOutcome
           /\ call' = call)]_vars

\* C17: during a MapsClient call every call of a source client is the
\* operation of a retryWithBackoff call; and when the MapsClient sees a
\* source call fail with a retryable error, that source client has been
\* invoked maxRetries + 1 times.
C17_EverySourceCallUnderRetry ==
  (mapsCall.op # "none" /\ call.target # "none") =>
    /\ operation = call.target
    /\ invocations >= 1
    /\ (SourceCallFailed /\ ClaimedRetryable(ShapeOf(searchOutcome))) =>
         invocations = maxRetries + 1

\* ------------------------------------------------------------------------
\* Claims on MapsClient.getBusinessDetails
\* ------------------------------------------------------------------------

ApiLookup == "GooglePlacesClient.getBusinessDetails"

ScraperLookup == "GoogleMapsScraper.getBusinessDetails"

\* A MapsClient.getBusinessDetails call that has started.
DetailsStarted == mapsCall.op = "getBusinessDetails" /\ mapsPc # "idle"

\* A non-empty businessUrl was given.
UrlSupplied ==
  mapsCall.businessUrl # Undefined /\ mapsCall.businessUrl.str # ""

\* C23: getBusinessDetails with a non-empty id and a structured client
\* calls the structured lookup first; once that has succeeded the call has
\* returned its details tagged 'api' and the scraper is not invoked; the
\* scraper is invoked after it only when it failed and a URL was supplied.
\* With an empty id the structured client is never invoked, the scraper
\* (given a URL) is called first, and what is returned is tagged 'scraper'.
C23_DetailsSourceSelection ==
  DetailsStarted =>
    /\ (mapsCall.businessId # "" /\ mapsCall.hasPlacesClient) =>
         /\ effects[1] = ApiLookup
         /\ Occurs(ApiLookup \o " fulfilled") =>
              /\ mapsPc = "resolved"
              /\ mapsOutcome = [kind |-> "details", source |-> "api"]
              /\ ~Occurs(ScraperLookup)
         /\ Occurs(ScraperLookup) =>
              (Occurs(ApiLookup \o " rejected") /\ UrlSupplied)
    /\ mapsCall.businessId = "" =>
         /\ ~Occurs(ApiLookup)
         /\ (UrlSupplied /\ mapsCall.hasScraper) => effects[1] = ScraperLookup
         /\ mapsPc = "resolved" =>
              mapsOutcome = [kind |-> "details", source |-> "scraper"]

\* The structured lookup failed, a URL was supplied, and the scraper's
\* details were returned.
C23_Witness ==
  /\ DetailsStarted
  /\ mapsCall.businessId # ""
  /\ Occurs(ApiLookup \o " rejected")
  /\ Occurs(ScraperLookup)
  /\ mapsPc = "resolved"
  /\ mapsOutcome = [kind |-> "details", source |-> "scraper"]

\* The terminal error of getBusinessDetails.
UnableToFetch ==
  [kind |-> "error",
   message |-> "Unable to fetch business details. No valid business ID or URL provided.",
   status |-> Undefined, code |-> Undefined]

\* C24: a finished getBusinessDetails call has failed with 'Unable to
\* fetch business details' exactly when neither a non-empty id with a
\* structured client nor a non-empty URL with a scraper was available; and
\* a call that failed after a source was attempted has failed with the
\* error of the source attempted last.
C24_UnableToFetchIffNoSource ==
  (DetailsStarted /\ mapsPc \in {"resolved", "rejected"}) =>
    /\ mapsOutcome = UnableToFetch <=>
         /\ ~(mapsCall.businessId # "" /\ mapsCall.hasPlacesClient)
         /\ ~(UrlSupplied /\ mapsCall.hasScraper)
    /\ (mapsPc = "rejected" /\ call.target # "none") =>
         mapsOutcome = searchOutcome

\* ------------------------------------------------------------------------
\* Claims on GooglePlacesClient
\* ------------------------------------------------------------------------

\* searchBusinesses of the structured client is about to resume with what
\* its HTTP request settled with.
PlacesSearchResumes ==
  /\ call.target = "GooglePlacesClient"
  /\ call.op = "searchBusinesses"
  /\ searchPc = "places.response"

\* An Error with this message and nothing else.
PlainError(message) ==
  [kind |-> "error", message |-> message, status |-> Undefined,
   code |-> Undefined]

ApiErrorPrefix == "Google Places API error: "

\* C25: searchBusinesses of the structured client turns what its request
\* settled with into its outcome thus: status REQUEST_DENIED fails with
\* 'Google Places API error: ' and the source's error_message; ZERO_RESULTS
\* returns the empty list; OK returns the mapped results; any other status
\* fails with 'Google Places API error: ' and the error_message or, without
\* one, the status; an HTTP 429 fails with 'Rate limit exceeded. Please try
\* again later.'; any other transport error is thrown unchanged.
C25_StatusMapping ==
  [][(PlacesSearchResumes /\ searchPc' # searchPc) =>
       LET r == pending
           o == searchOutcome'
       IN IF r.kind = "axiosError"
            THEN IF r.httpStatus = Num(429)
                   THEN o = PlainError("Rate limit exceeded. Please try again later.")
                   ELSE o = [kind |-> "error", message |-> r.message,
                             status |-> r.httpStatus, code |-> r.code]
          ELSE IF r.status = "REQUEST_DENIED"
            THEN /\ o.kind = "error"
                 /\ SubSeq(o.message, 1, Len(ApiErrorPrefix)) = ApiErrorPrefix
                 /\ r.error_message # Undefined =>
                      o = PlainError(ApiErrorPrefix \o r.error_message.str)
          ELSE IF r.status = "ZERO_RESULTS"
            THEN o = [kind |-> "results", count |-> 0, source |-> "places"]
          ELSE IF r.status = "OK"
            THEN o = [kind |-> "results", count |-> r.count,
                      source |-> "places"]
          ELSE o = PlainError(ApiErrorPrefix \o
                     (IF r.error_message # Undefined THEN r.error_message.str
                                                     ELSE r.status))]_vars

\* A request answered with HTTP 429 has made the call fail with the fixed
\* message.
C25_Witness ==
  /\ call.target = "GooglePlacesClient"
  /\ call.op = "searchBusinesses"
  /\ Occurs("axios.get textsearch")
  /\ searchPc = "rejected"
  /\ searchOutcome = PlainError("Rate limit exceeded. Please try again later.")

\* ------------------------------------------------------------------------
\* Claims on GoogleMapsScraper and robots.txt
\* ------------------------------------------------------------------------

\* The position in the history of the latest invocation of a source client
\* by the MapsClient (0 when a source client is called directly).
LastInvocation ==
  IF \E i \in 1..Len(effects) : effects[i] \in Invocations
    THEN CHOOSE i \in 1..Len(effects) :
           /\ effects[i] \in Invocations
           /\ \A j \in (i + 1)..Len(effects) : effects[j] \notin Invocations
    ELSE 0

\* What the source client's call in progress has done so far.
SinceInvocation == SubSeq(effects, LastInvocation + 1, Len(effects))

\* A call of the scraper on a client configured with respectRobots = true.
RespectfulScraperCall ==
  /\ call.target = "GoogleMapsScraper"
  /\ call.respectRobots

\* C26: in a scraper call with respectRobots = true, a page is opened or
\* navigated only after robots.txt has been fetched in that call.
C26_NoPageBeforePolicyCheck ==
  RespectfulScraperCall =>
    \A i \in 1..Len(SinceInvocation) :
      SinceInvocation[i] \in {"browser.newPage", "page.goto"} =>
        \E j \in 1..(i - 1) : SinceInvocation[j] = "axios.get robots.txt"

\* The document has, in a section whose User-agent is '*' or 'GoogleBot',
\* a Disallow line whose path is exactly /maps or /.
PolicyDenies(doc) ==
  LET lines == Split(doc, "\n")
      IsAgent(i) == StartsWith(Trim(lines[i]), "User-agent:")
      OurAgent(i) ==
        SecondField(Trim(lines[i])) \in {Str("*"), Str("GoogleBot")}
      InOurSection(i) ==
        \E a \in 1..i : /\ IsAgent(a)
                        /\ OurAgent(a)
                        /\ \A b \in (a + 1)..i : ~IsAgent(b)
  IN \E i \in 1..Len(lines) :
       /\ StartsWith(Trim(lines[i]), "Disallow:")
       /\ SecondField(Trim(lines[i])) \in {Str("/maps"), Str("/")}
       /\ InOurSection(i)

\* respectRobotsTxt() has returned, after a fetch that delivered a document.
PolicyChecked ==
  /\ call.target = "GoogleMapsScraper"
  /\ searchPc = "scraper.allowed"
  /\ pending.response.kind = "response"

\* The policy check could not fetch the document.
PolicyFetchFailed ==
  /\ call.target = "GoogleMapsScraper"
  /\ searchPc = "scraper.allowed"
  /\ pending.response.kind = "axiosError"

PolicyDenial == PlainError("Scraping not allowed by robots.txt")

\* C27: with respectRobots = true, when the fetched document denies,
\* searchBusinesses next fails with 'Scraping not allowed by robots.txt',
\* doing nothing else and leaving the browser session and its pages as they
\* were; and a call that has failed so has not launched a browser, opened a
\* page or navigated, and the session is the one it found.
C27_DenialBeforeAnyBrowserUse ==
  /\ [][(/\ PolicyChecked
         /\ call.respectRobots
         /\ PolicyDenies(pending.response.data)
         /\ searchPc' # searchPc)
          => (/\ searchPc' = "rejected"
              /\ searchOutcome' = PolicyDenial
              /\ effects' = effects
              /\ browser' = browser
              /\ pages' = pages)]_vars
  /\ []((/\ call.target = "GoogleMapsScraper"
         /\ call.op = "searchBusinesses"
         /\ searchPc = "rejected"
         /\ searchOutcome = PolicyDenial)
          => (/\ \A i \in 1..Len(SinceInvocation) :
                   SinceInvocation[i] \notin
                     {"chromium.launch", "browser.newPage", "page.goto"}
              /\ browser = call.browser
              /\ pages = 0))

\* A scraper with an open browser session was denied: the session is
\* still open and has no page.
C27_Witness ==
  /\ call.target = "GoogleMapsScraper"
  /\ call.op = "searchBusinesses"
  /\ call.respectRobots
  /\ call.browser = "open"
  /\ searchPc = "rejected"
  /\ searchOutcome = PolicyDenial
  /\ effects = <<"axios.get robots.txt">>
  /\ browser = "open"

\* C28: the policy check, given a fetched document, returns false if and
\* only if the document has, in a section for '*' or 'GoogleBot', a
\* Disallow of exactly /maps or exactly /.
C28_DeniesIffExactRuleInOurSection ==
  PolicyChecked =>
    (~pending.allowed <=> PolicyDenies(pending.response.data))

\* C29: when robots.txt could not be fetched the policy check returns
\* true, and searchBusinesses next launches the browser (or, with a session
\* open, opens its page) without failing.
C29_FailOpen ==
  /\ [](PolicyFetchFailed => pending.allowed)
  /\ [][(PolicyFetchFailed /\ searchPc' # searchPc)
          => (/\ searchPc' = IF browser = "null" THEN "scraper.launch"
                                                 ELSE "scraper.newPage"
              /\ effects' = Append(effects,
                                   IF browser = "null" THEN "chromium.launch"
                                                       ELSE "browser.newPage")
              /\ searchOutcome' = [kind |-> "none"])]_vars

\* The fetch of robots.txt timed out and the check returned true.
C29_Witness ==
  /\ PolicyFetchFailed
  /\ pending.response.code = Str("ECONNABORTED")
  /\ pending.allowed

\* ------------------------------------------------------------------------
\* Claims on the records returned by MapsClient.searchBusinesses
\* ------------------------------------------------------------------------

\* options.maxResults, 20 when it is not given.
RequestedMaximum ==
  IF mapsCall.maxResults = Undefined THEN 20 ELSE mapsCall.maxResults.num

\* The record is the unified form of the source's record.
MappedFrom(unified, record) ==
  /\ unified.name = record.name
  /\ unified.address = record.address
  /\ unified.source = "api" => unified.id = record.id

\* C21: searchBusinesses returns min(n, maxResults) records (maxResults 20
\* when not given), the i-th being the unified form of the i-th of the n
\* records the source client returned, whichever source that was.
C21_FirstMaxResultsInOrder ==
  dataPc = "resolved" =>
    /\ Len(unifiedResults) = Min(Len(sourceResults), RequestedMaximum)
    /\ \A i \in 1..Len(unifiedResults) :
         MappedFrom(unifiedResults[i], sourceResults[i])

\* With no maxResults given, 20 of the source's 21 records were returned.
C21_Witness ==
  /\ dataPc = "resolved"
  /\ mapsCall.maxResults = Undefined
  /\ Len(sourceResults) = 21
  /\ Len(unifiedResults) = 20
  /\ unifiedResults[20].id = Str("p20")

\* A string that is there and is not empty.
NonEmptyString(v) == v \notin {Undefined, Null} /\ Len(v.str) > 0

\* C22: every record returned carries source 'api' or 'scraper' and a
\* non-empty name and address, a record tagged 'api' carries a non-empty
\* id, and all the records of the list carry the same source.
C22_ReturnedRecordsWellFormed ==
  dataPc = "resolved" =>
    /\ \A i \in 1..Len(unifiedResults) :
         LET r == unifiedResults[i]
         IN /\ r.source \in {"api", "scraper"}
            /\ NonEmptyString(r.name)
            /\ NonEmptyString(r.address)
            /\ r.source = "api" => NonEmptyString(r.id)
    /\ \A i, j \in 1..Len(unifiedResults) :
         unifiedResults[i].source = unifiedResults[j].source

\* Of two places delivered, the one without place_id was dropped and the
\* other was returned, tagged 'api'.
C22_Witness ==
  /\ dataPc = "resolved"
  /\ Len(unifiedResults) = 1
  /\ unifiedResults[1].source = "api"
  /\ Len(rawResults) = 2
  /\ rawResults[1] # Null
  /\ rawResults[1].place_id = Undefined

\* ------------------------------------------------------------------------
\* Claims on the browser session of GoogleMapsScraper
\* ------------------------------------------------------------------------

\* The entry carries a number.
IsNumber(v) == v \notin {Undefined, Null} /\ "num" \in DOMAIN v

\* The raw entry carries an identifier, a name, a formatted address, a
\* latitude and a longitude.
CarriesAllFields(entry) ==
  /\ entry # Null
  /\ NonEmptyString(entry.place_id)
  /\ NonEmptyString(entry.name)
  /\ NonEmptyString(entry.formatted_address)
  /\ IsNumber(entry.lat)
  /\ IsNumber(entry.lng)

\* The positions of the raw entries that carry all fields.
KeptPositions ==
  {i \in 1..Len(rawResults) : CarriesAllFields(rawResults[i])}

\* The position in the raw list of the j-th entry that carries all fields.
KeptPosition(j) ==
  CHOOSE i \in KeptPositions :
    Cardinality({k \in KeptPositions : k < i}) = j - 1

NoCleanupYet == \A c \in 1..Len(scrapes) : scrapes[c].op # "cleanup"

\* The browser can still be reached: this.browser is it, or a call that
\* has not settled holds it.
Reachable(b) ==
  \/ thisBrowser = b
  \/ \E c \in 1..Len(scrapes) :
       scrapes[c].browser = b /\ scrapes[c].pc \in {"newPage", "page", "close"}

\* C30: until cleanup is called at most one browser has been launched,
\* however the scraping calls overlap, and all pages were opened in the
\* same browser; and at all times a browser that was launched and has not
\* been closed can still be reached.
C30_OneSessionNoLeak ==
  /\ NoCleanupYet =>
       /\ launches <= 1
       /\ \A c, d \in 1..Len(scrapes) :
            (scrapes[c].page # 0 /\ scrapes[d].page # 0) =>
              scrapes[c].page = scrapes[d].page
  /\ \A b \in 1..launches : b \notin closed => Reachable(b)

\* ------------------------------------------------------------------------
\* Claims on cleanup
\* ------------------------------------------------------------------------

\* Call c runs the body of GoogleMapsScraper.cleanup.
ReachesScraperCleanup(c, s) ==
  \/ s[c].op = "cleanup"
  \/ s[c].op = "MapsClient.cleanup" /\ mapsCall.hasScraper

\* The calls of browser.close() that call c made.
CloseCallsBy(c) == {i \in 1..Len(closeCalls) : closeCalls[i].by = c}

\* No call is under way.
AllSettled == \A c \in 1..Len(scrapes) : scrapes[c].pc \in {"settled", "rejected"}

\* C31: cleanup with no session closes nothing and succeeds at once; cleanup
\* with a session calls close() on that browser exactly once and leaves
\* this.browser null when it completes; a further cleanup called in sequence
\* (nothing under way, every launched browser closed) closes nothing more;
\* MapsClient.cleanup does the same when it holds a scraper and nothing when
\* it holds none.
C31_CleanupIdempotentAndComplete ==
  /\ [](\A c \in 1..Len(scrapes) :
          scrapes[c].op \in {"cleanup", "MapsClient.cleanup"} =>
            /\ Cardinality(CloseCallsBy(c)) =
                 IF scrapes[c].browser # 0 THEN 1 ELSE 0
            /\ \A i \in CloseCallsBy(c) :
                 closeCalls[i].browser = scrapes[c].browser
            /\ scrapes[c].browser = 0 => scrapes[c].pc = "settled"
            /\ ~ReachesScraperCleanup(c, scrapes) => scrapes[c].browser = 0)
  /\ [][\A c \in 1..Len(scrapes) :
          (/\ scrapes[c].op \in {"cleanup", "MapsClient.cleanup"}
           /\ scrapes[c].pc = "close"
           /\ scrapes'[c].pc = "settled") => thisBrowser' = 0]_vars
  /\ [][(/\ Len(scrapes') = Len(scrapes) + 1
         /\ ReachesScraperCleanup(Len(scrapes'), scrapes'))
        => IF thisBrowser = 0
             THEN /\ closeCalls' = closeCalls
                  /\ closed' = closed
                  /\ thisBrowser' = 0
                  /\ scrapes'[Len(scrapes')].pc = "settled"
             ELSE /\ closeCalls' = Append(closeCalls,
                                          [by |-> Len(scrapes'),
                                           browser |-> thisBrowser])
                  /\ scrapes'[Len(scrapes')].browser = thisBrowser]_vars
  /\ [][(/\ Len(scrapes') = Len(scrapes) + 1
         /\ scrapes'[Len(scrapes')].op \in {"cleanup", "MapsClient.cleanup"}
         /\ Len(scrapes) >= 1
         /\ ReachesScraperCleanup(Len(scrapes), scrapes)
         /\ AllSettled
         /\ \A b \in 1..launches : b \in closed)
        => /\ closeCalls' = closeCalls
           /\ scrapes'[Len(scrapes')].pc = "settled"]_vars

\* A scrape opened a session, a first cleanup closed it and a second cleanup
\* made through a MapsClient that holds the scraper has completed.
C31_Witness ==
  /\ Len(scrapes) = 3
  /\ scrapes[1].op = "scrape" /\ scrapes[1].browser = 1
  /\ scrapes[2].op = "cleanup" /\ scrapes[2].browser = 1
  /\ scrapes[3].op = "MapsClient.cleanup" /\ scrapes[3].pc = "settled"
  /\ mapsCall.hasScraper
  /\ closeCalls = <<[by |-> 2, browser |-> 1]>>
  /\ thisBrowser = 0

\* ------------------------------------------------------------------------
\* Claims on a retried operation that succeeds
\* ------------------------------------------------------------------------

\* The first k settled invocations failed with retryable errors and
\* invocation k + 1 succeeded.
SucceedsAfter(k) ==
  /\ Len(attempts) >= k + 1
  /\ \A i \in 1..k :
       ~attempts[i].ok /\ ClaimedRetryable(attempts[i].error.shape)
  /\ attempts[k + 1].ok

\* C33: when the first k invocations (k <= maxRetries) fail with retryable
\* errors and invocation k + 1 succeeds, retryWithBackoff returns the result
\* of invocation k + 1 after exactly k + 1 invocations and k waits, and the
\* operation is not invoked again.
C33_SucceedsAfterRetries ==
  /\ [](\A k \in 0..maxRetries :
          SucceedsAfter(k) =>
            /\ retryPc = "resolved"
            /\ retryResult = [kind |-> "value", id |-> k + 1]
            /\ invocations = k + 1
            /\ Len(attempts) = k + 1
            /\ Len(waits) = k)
  /\ [][retryPc = "resolved" =>
          /\ invocations' = invocations
          /\ attempts' = attempts
          /\ waits' = waits
          /\ retryResult' = retryResult]_vars

\* With maxRetries 2 configured, two retryable failures were followed by a
\* success on the third invocation.
C33_Witness ==
  /\ config.maxRetries = 2
  /\ SucceedsAfter(2)
  /\ retryPc = "resolved"

\* ------------------------------------------------------------------------
\* Claims on the pages of GoogleMapsScraper
\* ------------------------------------------------------------------------

\* The positions of a scraper operation between browser.newPage() and the
\* end of page.close().
PageHeld ==
  {"scraper.setup", "scraper.goto", "scraper.selector", "scraper.evaluate",
   "scraper.close"}

\* C35: the page a scraper operation opens is open only inside its try
\* block and is closed when the operation completes, on success and on a
\* failure of setup, navigation, selector wait or extraction; closing the
\* page leaves the browser open; so no page is open once operations have
\* completed.
C35_NoPageLeftOpen ==
  /\ [](pages = IF searchPc \in PageHeld THEN 1 ELSE 0)
  /\ [][pages' < pages => (browser = "open" /\ browser' = "open")]_vars
  /\ [][(searchPc \in PageHeld /\ searchPc' \notin PageHeld) =>
          (/\ searchPc = "scraper.close"
           /\ searchPc' \in {"resolved", "rejected"}
           /\ pages' = 0)]_vars

\* A scraper search failed at the selector wait: its page was closed and
\* the browser is still open.
C35_Witness ==
  /\ call.target = "GoogleMapsScraper"
  /\ searchPc = "rejected"
  /\ searchOutcome = Failure("failed at scraper.selector")
  /\ Occurs("page.close")
  /\ pages = 0
  /\ browser = "open"

\* ------------------------------------------------------------------------
\* Claims on retried structured searches and the pacing queue
\* ------------------------------------------------------------------------

\* The structured client has been invoked and has not yet run up to its
\* call of waitForNextRequest.
StructuredCallStarting ==
  /\ call.target = "GooglePlacesClient"
  /\ searchPc = "idle"
  /\ Occurs(InvocationOf("GooglePlacesClient"))

\* C39: in a MapsClient search every invocation of the structured client,
\* the first and each retry, creates one entry of the pacing queue, so the
\* entries created equal the invocations; and an HTTP request is issued
\* only by the invocation whose own entry, the latest, has been released.
C39_EveryAttemptQueuesAgain ==
  /\ [](mapsCall.op = "searchBusinesses" =>
          /\ Len(calls) =
               Count(InvocationOf("GooglePlacesClient"))
                 - (IF StructuredCallStarting THEN 1 ELSE 0)
          /\ Count("waitForNextRequest") = Len(calls)
          /\ Count("axios.get textsearch") <= Len(released))
  /\ [][(/\ mapsCall.op = "searchBusinesses"
         /\ Count("axios.get textsearch")' > Count("axios.get textsearch"))
        => /\ ticket = Len(calls)
           /\ IsReleased(ticket)
           /\ Count("axios.get textsearch")' = Len(calls)]_vars

\* A structured search was retried: the client was invoked twice, two
\* entries were queued and released, and two HTTP requests were issued.
C39_Witness ==
  /\ mapsCall.op = "searchBusinesses"
  /\ invocations = 2
  /\ Count(InvocationOf("GooglePlacesClient")) = 2
  /\ Len(calls) = 2
  /\ Len(released) = 2
  /\ Count("axios.get textsearch") = 2

\* ------------------------------------------------------------------------
\* Claims on the numeric fields of scraped records
\* ------------------------------------------------------------------------

\* The text begins, after white space and a sign, with a decimal literal.
HasNumericPrefix(text) ==
  /\ Truthy(text)
  /\ LET u == Unsigned(TrimStart(text.str))
     IN \/ LeadingDigits(u) # ""
        \/ /\ Len(u) > 1
           /\ SubSeq(u, 1, 1) = "."
           /\ IsDigit(SubSeq(u, 2, 2))

\* The text is a decimal numeral and nothing else: digits, or digits, a
\* point and digits.
IsNumeral(text) ==
  /\ Truthy(text)
  /\ LET int == LeadingDigits(text.str)
         rest == SubSeq(text.str, Len(int) + 1, Len(text.str))
     IN /\ int # ""
        /\ \/ rest = ""
           \/ /\ Len(rest) > 1
              /\ SubSeq(rest, 1, 1) = "."
              /\ LeadingDigits(SubSeq(rest, 2, Len(rest)))
                   = SubSeq(rest, 2, Len(rest))

\* The number a decimal numeral denotes.
NumeralValue(text) ==
  LET int == LeadingDigits(text.str)
  IN Decimal(1, DigitsValue(int),
             SubSeq(text.str, Len(int) + 2, Len(text.str)))

\* The field is what the claim asks of the text it was parsed from.
ParsedAsClaimed(text, field) ==
  /\ field # NaN
  /\ ~HasNumericPrefix(text) => field = Undefined
  /\ IsNumeral(text) => field = NumeralValue(text)

\* C36: in the records mapScrapedResults and mapScrapedDetails return, a
\* rating or review-count text that cannot be parsed as a number gives an
\* undefined field, never zero and never NaN, and a text that is a number
\* gives its value.
C36_UnparsableTextIsAbsent ==
  dataPc = "mapped" =>
    \A i \in 1..Len(sourceResults) :
      /\ ParsedAsClaimed(rawResults[i].rating, sourceResults[i].rating)
      /\ ParsedAsClaimed(rawResults[i].reviewCount,
                         sourceResults[i].reviewCount)

\* ------------------------------------------------------------------------
\* Claims on DefaultRateLimiter
\* ------------------------------------------------------------------------

\* C38: the releases of any two requests of a DefaultRateLimiter are at
\* least 100 ms apart, also when the callers call waitForNextRequest while
\* others are waiting.
C38_DefaultLimiterSpacing ==
  \A i \in 2..Len(releasedAt) : releasedAt[i] - releasedAt[i - 1] >= 100

====
